---- MODULE Spec2Model ----
(***************************************************************************)
(* A model of the 6502 core of nes-emu: the CPU of src/src/cpu.rs, the     *)
(* status word and opcode table of src/src/constants.rs and the flat bus   *)
(* of src/src/bus.rs.  One action per public entry point of the CPU        *)
(* (clock, reset, nmi, irq); the instruction routines are operators on a   *)
(* record holding the CPU's fields.                                        *)
(*                                                                         *)
(* Rust's +, - and += on integers panic on overflow when the build has     *)
(* overflow checks (debug profile) and wrap when it has not (release       *)
(* profile).  The field overflow_checks of the CPU record chooses the      *)
(* build for one call; the actions draw it from BOOLEAN.                   *)
(***************************************************************************)
EXTENDS Integers, Naturals, Sequences, FiniteSets, TLC

VARIABLES ram, status, a, x, y, stack_pointer, program_counter, complete,
          cycles, panicked, call, prev, instr, done, budget, intr, lifo,
          conv, res, entry

vars == <<ram, status, a, x, y, stack_pointer, program_counter, complete,
          cycles, panicked, call, prev, instr, done, budget, intr, lifo,
          conv, res, entry>>

\* ------------------------------------------------------------------------
\* Bounds of the exploration
\* ------------------------------------------------------------------------
\* calls explored from a scenario image (reset, eight idle ticks, program)
MaxCalls == 36
\* calls explored from an image of the generated instruction families, which
\* are driven by clock() alone
MaxShortCalls == 12
\* reset/nmi/irq calls explored from a scenario image
MaxIntr == 1
\* bytes pushed by a run of the stack primitives, one more than the stack
\* page holds
MaxPush == 257

\* ------------------------------------------------------------------------
\* Integer widths and bit operations
\* ------------------------------------------------------------------------
U8 == 256
U16 == 65536

Byte == 0 .. 255

Bit(v, i) == (v \div (2 ^ i)) % 2

\* a & b, a | b, a ^ b on u8
And8(p, q) ==
    Bit(p, 0) * Bit(q, 0) + 2 * Bit(p, 1) * Bit(q, 1)
  + 4 * Bit(p, 2) * Bit(q, 2) + 8 * Bit(p, 3) * Bit(q, 3)
  + 16 * Bit(p, 4) * Bit(q, 4) + 32 * Bit(p, 5) * Bit(q, 5)
  + 64 * Bit(p, 6) * Bit(q, 6) + 128 * Bit(p, 7) * Bit(q, 7)

Or8(p, q) == p + q - And8(p, q)

Xor8(p, q) == p + q - 2 * And8(p, q)

\* bool as u8
AsInt(b) == IF b THEN 1 ELSE 0

\* u8 as i8
AsI8(b) == IF b >= 128 THEN b - 256 ELSE b

\* ------------------------------------------------------------------------
\* constants.rs: Status
\* ------------------------------------------------------------------------
\* to_byte, overflow in bit 5 and unused in bit 6
to_byte_swapped(p) ==
    AsInt(p.carry) + 2 * AsInt(p.zero) + 4 * AsInt(p.interrupt)
  + 8 * AsInt(p.decimal) + 16 * AsInt(p.break_command)
  + 32 * AsInt(p.overflow) + 64 * AsInt(p.unused) + 128 * AsInt(p.negative)

to_byte(p) ==
    AsInt(p.carry) + 2 * AsInt(p.zero) + 4 * AsInt(p.interrupt)
  + 8 * AsInt(p.decimal) + 16 * AsInt(p.break_command)
  + 32 * AsInt(p.unused) + 64 * AsInt(p.overflow) + 128 * AsInt(p.negative)

from_byte(input) ==
    [carry         |-> And8(input, 1) # 0,
     zero          |-> And8(input, 2) # 0,
     interrupt     |-> And8(input, 4) # 0,
     decimal       |-> And8(input, 8) # 0,
     break_command |-> And8(input, 16) # 0,
     unused        |-> And8(input, 32) # 0,
     overflow      |-> And8(input, 64) # 0,
     negative      |-> And8(input, 128) # 0]

\* ------------------------------------------------------------------------
\* constants.rs: OpCode, AddressingMode, OPCODES
\* ------------------------------------------------------------------------
AddressingMode ==
    {"Implicit", "Accumulator", "Immediate", "ZeroPage", "ZeroPageX",
     "ZeroPageY", "Relative", "Absolute", "AbsoluteX", "AbsoluteY",
     "Indirect", "IndirectX", "IndirectY"}

OpCode(name, opcode, mode, bytes, cyc) ==
    [name |-> name, opcode |-> opcode, addressing_mode |-> mode,
     bytes |-> bytes, cycles |-> cyc]

opcode_array ==
    <<
       OpCode("ADC", 105, "Immediate", 2, 2),
       OpCode("ADC", 101, "ZeroPage", 2, 3),
       OpCode("ADC", 117, "ZeroPageX", 2, 4),
       OpCode("ADC", 109, "Absolute", 3, 4),
       OpCode("ADC", 125, "AbsoluteX", 3, 4),
       OpCode("ADC", 121, "AbsoluteY", 3, 4),
       OpCode("ADC", 97, "IndirectX", 2, 6),
       OpCode("ADC", 113, "IndirectY", 2, 5),
       OpCode("AND", 41, "Immediate", 2, 2),
       OpCode("AND", 37, "ZeroPage", 2, 3),
       OpCode("AND", 53, "ZeroPageX", 2, 4),
       OpCode("AND", 45, "Absolute", 3, 4),
       OpCode("AND", 61, "AbsoluteX", 3, 4),
       OpCode("AND", 57, "AbsoluteY", 3, 4),
       OpCode("AND", 33, "IndirectX", 2, 6),
       OpCode("AND", 49, "IndirectY", 2, 5),
       OpCode("ASL", 10, "Accumulator", 1, 2),
       OpCode("ASL", 6, "ZeroPage", 2, 5),
       OpCode("ASL", 22, "ZeroPageX", 2, 6),
       OpCode("ASL", 14, "Absolute", 3, 6),
       OpCode("ASL", 30, "AbsoluteX", 3, 7),
       OpCode("BCC", 144, "Relative", 2, 2),
       OpCode("BCS", 176, "Relative", 2, 2),
       OpCode("BEQ", 240, "Relative", 2, 2),
       OpCode("BIT", 36, "ZeroPage", 2, 3),
       OpCode("BIT", 44, "Absolute", 3, 4),
       OpCode("BMI", 48, "Relative", 2, 2),
       OpCode("BNE", 208, "Relative", 2, 2),
       OpCode("BPL", 16, "Relative", 2, 2),
       OpCode("BRK", 0, "Implicit", 1, 7),
       OpCode("BVC", 80, "Relative", 2, 2),
       OpCode("BVS", 112, "Relative", 2, 2),
       OpCode("CLC", 24, "Implicit", 1, 2),
       OpCode("CLD", 216, "Implicit", 1, 2),
       OpCode("CLI", 88, "Implicit", 1, 2),
       OpCode("CLV", 184, "Implicit", 1, 2),
       OpCode("CMP", 201, "Immediate", 2, 2),
       OpCode("CMP", 197, "ZeroPage", 2, 3),
       OpCode("CMP", 213, "ZeroPageX", 2, 4),
       OpCode("CMP", 205, "Absolute", 3, 4),
       OpCode("CMP", 221, "AbsoluteX", 3, 4),
       OpCode("CMP", 217, "AbsoluteY", 3, 4),
       OpCode("CMP", 193, "IndirectX", 2, 6),
       OpCode("CMP", 209, "IndirectY", 2, 5),
       OpCode("CPX", 224, "Immediate", 2, 2),
       OpCode("CPX", 228, "ZeroPage", 2, 3),
       OpCode("CPX", 236, "Absolute", 3, 4),
       OpCode("CPY", 192, "Immediate", 2, 2),
       OpCode("CPY", 196, "ZeroPage", 2, 3),
       OpCode("CPY", 204, "Absolute", 3, 4),
       OpCode("DEC", 198, "ZeroPage", 2, 5),
       OpCode("DEC", 214, "ZeroPageX", 2, 6),
       OpCode("DEC", 206, "Absolute", 3, 6),
       OpCode("DEC", 222, "AbsoluteX", 3, 7),
       OpCode("DEX", 202, "Implicit", 1, 2),
       OpCode("DEY", 136, "Implicit", 1, 2),
       OpCode("EOR", 73, "Immediate", 2, 2),
       OpCode("EOR", 69, "ZeroPage", 2, 3),
       OpCode("EOR", 85, "ZeroPageX", 2, 4),
       OpCode("EOR", 77, "Absolute", 3, 4),
       OpCode("EOR", 93, "AbsoluteX", 3, 4),
       OpCode("EOR", 89, "AbsoluteY", 3, 4),
       OpCode("EOR", 65, "IndirectX", 2, 6),
       OpCode("EOR", 81, "IndirectY", 2, 5),
       OpCode("INC", 230, "ZeroPage", 2, 5),
       OpCode("INC", 246, "ZeroPageX", 2, 6),
       OpCode("INC", 238, "Absolute", 3, 6),
       OpCode("INC", 254, "AbsoluteX", 3, 7),
       OpCode("INX", 232, "Implicit", 1, 2),
       OpCode("INY", 200, "Implicit", 1, 2),
       OpCode("JMP", 76, "Absolute", 3, 3),
       OpCode("JMP", 108, "Indirect", 3, 5),
       OpCode("JSR", 32, "Absolute", 3, 6),
       OpCode("LDA", 169, "Immediate", 2, 2),
       OpCode("LDA", 165, "ZeroPage", 2, 3),
       OpCode("LDA", 181, "ZeroPageX", 2, 4),
       OpCode("LDA", 173, "Absolute", 3, 4),
       OpCode("LDA", 189, "AbsoluteX", 3, 4),
       OpCode("LDA", 185, "AbsoluteY", 3, 4),
       OpCode("LDA", 161, "IndirectX", 2, 6),
       OpCode("LDA", 177, "IndirectY", 2, 5),
       OpCode("LDX", 162, "Immediate", 2, 2),
       OpCode("LDX", 166, "ZeroPage", 2, 3),
       OpCode("LDX", 182, "ZeroPageY", 2, 4),
       OpCode("LDX", 174, "Absolute", 3, 4),
       OpCode("LDX", 190, "AbsoluteY", 3, 4),
       OpCode("LDY", 160, "Immediate", 2, 2),
       OpCode("LDY", 164, "ZeroPage", 2, 3),
       OpCode("LDY", 180, "ZeroPageX", 2, 4),
       OpCode("LDY", 172, "Absolute", 3, 4),
       OpCode("LDY", 188, "AbsoluteX", 3, 4),
       OpCode("LSR", 74, "Accumulator", 1, 2),
       OpCode("LSR", 70, "ZeroPage", 2, 5),
       OpCode("LSR", 86, "ZeroPageX", 2, 6),
       OpCode("LSR", 78, "Absolute", 3, 6),
       OpCode("LSR", 94, "AbsoluteX", 3, 7),
       OpCode("NOP", 234, "Implicit", 1, 2),
       OpCode("ORA", 9, "Immediate", 2, 2),
       OpCode("ORA", 5, "ZeroPage", 2, 3),
       OpCode("ORA", 21, "ZeroPageX", 2, 4),
       OpCode("ORA", 13, "Absolute", 3, 4),
       OpCode("ORA", 29, "AbsoluteX", 3, 4),
       OpCode("ORA", 25, "AbsoluteY", 3, 4),
       OpCode("ORA", 1, "IndirectX", 2, 6),
       OpCode("ORA", 17, "IndirectY", 2, 5),
       OpCode("PHA", 72, "Implicit", 1, 3),
       OpCode("PHP", 8, "Implicit", 1, 3),
       OpCode("PLA", 104, "Implicit", 1, 4),
       OpCode("PLP", 40, "Implicit", 1, 4),
       OpCode("ROL", 42, "Accumulator", 1, 2),
       OpCode("ROL", 38, "ZeroPage", 2, 5),
       OpCode("ROL", 54, "ZeroPageX", 2, 6),
       OpCode("ROL", 46, "Absolute", 3, 6),
       OpCode("ROL", 62, "AbsoluteX", 3, 7),
       OpCode("ROR", 106, "Accumulator", 1, 2),
       OpCode("ROR", 102, "ZeroPage", 2, 5),
       OpCode("ROR", 118, "ZeroPageX", 2, 6),
       OpCode("ROR", 110, "Absolute", 3, 6),
       OpCode("ROR", 126, "AbsoluteX", 3, 7),
       OpCode("RTI", 64, "Implicit", 1, 6),
       OpCode("RTS", 96, "Implicit", 1, 6),
       OpCode("SBC", 233, "Immediate", 2, 2),
       OpCode("SBC", 229, "ZeroPage", 2, 3),
       OpCode("SBC", 245, "ZeroPageX", 2, 4),
       OpCode("SBC", 237, "Absolute", 3, 4),
       OpCode("SBC", 253, "AbsoluteX", 3, 4),
       OpCode("SBC", 249, "AbsoluteY", 3, 4),
       OpCode("SBC", 225, "IndirectX", 2, 6),
       OpCode("SBC", 241, "IndirectY", 2, 5),
       OpCode("SEC", 56, "Implicit", 1, 2),
       OpCode("SED", 248, "Implicit", 1, 2),
       OpCode("SEI", 120, "Implicit", 1, 2),
       OpCode("STA", 133, "ZeroPage", 2, 3),
       OpCode("STA", 149, "ZeroPageX", 2, 4),
       OpCode("STA", 141, "Absolute", 3, 4),
       OpCode("STA", 157, "AbsoluteX", 3, 5),
       OpCode("STA", 153, "AbsoluteY", 3, 5),
       OpCode("STA", 129, "IndirectX", 2, 6),
       OpCode("STA", 145, "IndirectY", 2, 6),
       OpCode("STX", 134, "ZeroPage", 2, 3),
       OpCode("STX", 150, "ZeroPageY", 2, 4),
       OpCode("STX", 142, "Absolute", 3, 4),
       OpCode("STY", 132, "ZeroPage", 2, 3),
       OpCode("STY", 148, "ZeroPageX", 2, 4),
       OpCode("STY", 140, "Absolute", 3, 4),
       OpCode("TAX", 170, "Implicit", 1, 2),
       OpCode("TAY", 168, "Implicit", 1, 2),
       OpCode("TSX", 186, "Implicit", 1, 2),
       OpCode("TXA", 138, "Implicit", 1, 2),
       OpCode("TXS", 154, "Implicit", 1, 2),
       OpCode("TYA", 152, "Implicit", 1, 2)
    >>

\* the map the array is inserted into, keyed by opcode
OPCODES ==
    [o \in {opcode_array[i].opcode : i \in DOMAIN opcode_array} |->
        opcode_array[CHOOSE i \in DOMAIN opcode_array : opcode_array[i].opcode = o]]

\* ------------------------------------------------------------------------
\* bus.rs: Bus.  ram is the 64 KiB array, held as the function of its
\* non-zero bytes (Bus::new zeroes the array).
\* ------------------------------------------------------------------------
BusRead(r, addr) == IF addr \in DOMAIN r THEN r[addr] ELSE 0

BusWrite(r, addr, data) ==
    IF data = 0
    THEN [k \in DOMAIN r \ {addr} |-> r[k]]
    ELSE [k \in DOMAIN r \cup {addr} |-> IF k = addr THEN data ELSE r[k]]

\* ------------------------------------------------------------------------
\* cpu.rs: the CPU as a record s; every routine maps the record to the
\* record after the call.
\* ------------------------------------------------------------------------
read(s, addr) == BusRead(s.ram, addr)

write(s, addr, data) == [s EXCEPT !.ram = BusWrite(s.ram, addr, data)]

hilo_to_u16(high, low) == high * 256 + low

\* page_cross, telling only a move to a higher page
page_cross_upward(input1, input2) == (input1 \div 256) > (input2 \div 256)

page_cross(input1, input2) == (input1 \div 256) # (input2 \div 256)

\* update_zero_and_negative_flags, the negative flag taken from bit 6
update_flags_from_bit_6(s, register) ==
    [s EXCEPT !.status.zero = (register = 0),
              !.status.negative = And8(register, 64) # 0]

update_zero_and_negative_flags(s, register) ==
    [s EXCEPT !.status.zero = (register = 0),
              !.status.negative = (register \div 128 # 0)]

cycle_if(s, addressing_mode, needed_addressing_mode, condition) ==
    IF needed_addressing_mode = addressing_mode /\ condition
    THEN [s EXCEPT !.cycles = s.cycles + 1]
    ELSE s

\* indexed_cycles, without the penalty of IndirectY
indexed_cycles_absolute_only(s, addressing_mode, page_boundary_crossed) ==
    cycle_if(cycle_if(s, addressing_mode, "AbsoluteX", page_boundary_crossed),
             addressing_mode, "AbsoluteY", page_boundary_crossed)

indexed_cycles(s, addressing_mode, page_boundary_crossed) ==
    cycle_if(cycle_if(cycle_if(s, addressing_mode, "AbsoluteX", page_boundary_crossed),
                      addressing_mode, "AbsoluteY", page_boundary_crossed),
             addressing_mode, "IndirectY", page_boundary_crossed)

\* stack_pop, the stack pointer stopping at 0xFF
stack_pop_saturating(s) ==
    [s EXCEPT !.stack_pointer =
                  IF s.stack_pointer = 255 THEN 255 ELSE s.stack_pointer + 1]

\* stack_pop changes stack_pointer and returns the byte read: the byte is
\* stack_top of the record stack_pop returns.
stack_pop(s) == [s EXCEPT !.stack_pointer = (s.stack_pointer + 1) % U8]

stack_top(s) == read(s, 256 + s.stack_pointer)

\* stack_push, the stack pointer decremented without wrapping
stack_push_no_wrap(s, data) ==
    [write(s, 256 + s.stack_pointer, data)
        EXCEPT !.stack_pointer = s.stack_pointer - 1]

stack_push(s, data) ==
    [write(s, 256 + s.stack_pointer, data)
        EXCEPT !.stack_pointer = (s.stack_pointer - 1) % U8]

\* get_address: addr and cross are the pair the function returns when its
\* additions wrap; ovf tells that one of its unchecked-width additions
\* (program_counter + 1, pointer + 1) overflowed, which panics under
\* overflow checks.
get_address(s, addressing_mode) ==
    LET pc == s.program_counter
        b0 == read(s, pc)
        b1 == read(s, (pc + 1) % U16)
        No(addr) == [addr |-> addr, cross |-> FALSE, ovf |-> FALSE]
    IN  CASE addressing_mode = "Implicit" -> No(0)
          [] addressing_mode = "Accumulator" -> No(0)
          [] addressing_mode = "Immediate" -> No(pc)
          [] addressing_mode = "ZeroPage" -> No(b0)
          [] addressing_mode = "ZeroPageX" -> No((b0 + s.x) % U8)
          [] addressing_mode = "ZeroPageY" -> No((b0 + s.y) % U8)
          [] addressing_mode = "Relative" -> No(0)
          [] addressing_mode = "Absolute" ->
                [addr |-> hilo_to_u16(b1, b0), cross |-> FALSE,
                 ovf |-> pc + 1 >= U16]
          [] addressing_mode = "AbsoluteX" ->
                LET address == (hilo_to_u16(b1, b0) + s.x) % U16
                IN  [addr |-> address, cross |-> page_cross(address, b1 * 256),
                     ovf |-> pc + 1 >= U16]
          [] addressing_mode = "AbsoluteY" ->
                LET address == (hilo_to_u16(b1, b0) + s.y) % U16
                IN  [addr |-> address, cross |-> page_cross(address, b1 * 256),
                     ovf |-> pc + 1 >= U16]
          [] addressing_mode = "Indirect" ->
                LET pointer == hilo_to_u16(b1, b0)
                    low == read(s, pointer)
                    high == read(s, (pointer + 1) % U16)
                IN  [addr |-> hilo_to_u16(high, low), cross |-> FALSE,
                     ovf |-> pc + 1 >= U16 \/ pointer + 1 >= U16]
          [] addressing_mode = "IndirectX" ->
                LET pointer == (b0 + s.x) % U8
                    low == read(s, pointer)
                    high == read(s, (pointer + 1) % U8)
                IN  [addr |-> hilo_to_u16(high, low), cross |-> FALSE,
                     ovf |-> pointer + 1 >= U8]
          [] addressing_mode = "IndirectY" ->
                LET pointer == b0
                    low == read(s, pointer)
                    high == read(s, pointer + 1)
                    address == (hilo_to_u16(high, low) + s.y) % U16
                IN  [addr |-> address, cross |-> page_cross(address, high * 256),
                     ovf |-> FALSE]

\* In what follows a routine that names a value more than once takes it as a
\* parameter of a second operator (LDA of LDA_data), so that the routine's
\* text holds one copy of what computes the value.

\* get_data: the pair (value, page_boundary_cross), with get_address's ovf
get_data_at(s, r) ==
    [value |-> read(s, r.addr), cross |-> r.cross, ovf |-> r.ovf]

get_data(s, addressing_mode) ==
    IF ~(addressing_mode = "Implicit" \/ addressing_mode = "Accumulator")
    THEN get_data_at(s, get_address(s, addressing_mode))
    ELSE [value |-> s.a, cross |-> FALSE, ovf |-> FALSE]

\* self.update_zero_and_negative_flags(self.a), (self.x), (self.y)
flags_from_a(s) == update_zero_and_negative_flags(s, s.a)

flags_from_x(s) == update_zero_and_negative_flags(s, s.x)

flags_from_y(s) == update_zero_and_negative_flags(s, s.y)

\* push_pc, the low byte pushed first
push_pc_low_first(s) ==
    stack_push(stack_push(s, s.program_counter % 256),
               s.program_counter \div 256)

\* self.stack_push((self.program_counter >> 8) as u8);
\* self.stack_push(self.program_counter as u8);
push_pc(s) ==
    stack_push(stack_push(s, s.program_counter \div 256),
               s.program_counter % 256)

\* self.stack_push(self.status.to_byte());
push_status(s) == stack_push(s, to_byte(s.status))

\* let low = self.read(addr); let high = self.read(addr + 1);
\* self.program_counter = self.hilo_to_u16(high, low);
load_vector(s, addr) ==
    [s EXCEPT !.program_counter =
                  hilo_to_u16(read(s, addr + 1), read(s, addr))]

\* branch, billing the two page-cross cycles on every taken branch
branch_always_crossing(s, condition) ==
    IF condition
    THEN LET jump == AsI8(read(s, s.program_counter))
             new_pc == (s.program_counter + 1 + jump) % U16
         IN  [s EXCEPT !.program_counter = new_pc,
                       !.cycles = s.cycles + 1 + 2]
    ELSE s

\* branch, the page of the target compared with the page of the address
\* after the operand byte
branch_cross_from_next(s, condition) ==
    IF condition
    THEN LET jump == AsI8(read(s, s.program_counter))
             next_pc == (s.program_counter + 1) % U16
             new_pc == (s.program_counter + 1 + jump) % U16
         IN  [s EXCEPT !.program_counter = new_pc,
                       !.cycles = s.cycles + 1
                                  + AsInt(page_cross(next_pc, new_pc)) * 2]
    ELSE s

\* COMMONS
branch(s, condition) ==
    IF condition
    THEN LET jump == AsI8(read(s, s.program_counter))
             old_pc == s.program_counter
             new_pc == (s.program_counter + 1 + jump) % U16
         IN  [s EXCEPT !.program_counter = new_pc,
                       !.cycles = s.cycles + 1
                                  + AsInt(page_cross(old_pc, new_pc)) * 2]
    ELSE s

\* MEMORY OPERATIONS
LDA_data(s, m, d) ==
    flags_from_a(indexed_cycles([s EXCEPT !.a = d.value], m, d.cross))

LDA(s, m) == LDA_data(s, m, get_data(s, m))

LDX_data(s, m, d) ==
    flags_from_x(cycle_if([s EXCEPT !.x = d.value], m, "AbsoluteY", d.cross))

LDX(s, m) == LDX_data(s, m, get_data(s, m))

LDY_data(s, m, d) ==
    flags_from_y(cycle_if([s EXCEPT !.y = d.value], m, "AbsoluteX", d.cross))

LDY(s, m) == LDY_data(s, m, get_data(s, m))

STA(s, m) == write(s, get_address(s, m).addr, s.a)

STX(s, m) == write(s, get_address(s, m).addr, s.x)

STY(s, m) == write(s, get_address(s, m).addr, s.y)

\* REGISTER TRANSFER OPERATIONS
TAX(s, m) == flags_from_x([s EXCEPT !.x = s.a])

TAY(s, m) == flags_from_y([s EXCEPT !.y = s.a])

TSX(s, m) == flags_from_x([s EXCEPT !.x = s.stack_pointer])

\* the flags are computed from x, the source of the transfer
TXA(s, m) == flags_from_x([s EXCEPT !.a = s.x])

TXS(s, m) == [s EXCEPT !.stack_pointer = s.x]

\* the flags are computed from y, the source of the transfer
TYA(s, m) == flags_from_y([s EXCEPT !.a = s.y])

\* STACK OPERATIONS
PHA(s, m) == stack_push(s, s.a)

\* PHP, Break and Unused set in the register too
PHP_setting_register(s, m) ==
    stack_push([s EXCEPT !.status.break_command = TRUE,
                         !.status.unused = TRUE],
               to_byte([s.status EXCEPT !.break_command = TRUE,
                                        !.unused = TRUE]))

PHP(s, m) ==
    stack_push(s, to_byte([s.status EXCEPT !.break_command = TRUE,
                                           !.unused = TRUE]))

\* s1 is the CPU after stack_pop
PLA_popped(s1) == flags_from_a([s1 EXCEPT !.a = stack_top(s1)])

PLA(s, m) == PLA_popped(stack_pop(s))

\* PLP_popped, the unused flag taken from the byte
PLP_popped_keeping_unused(s1) ==
    [s1 EXCEPT !.status = [from_byte(stack_top(s1))
                             EXCEPT !.break_command = FALSE]]

PLP_popped(s1) ==
    [s1 EXCEPT !.status = [from_byte(stack_top(s1))
                             EXCEPT !.break_command = FALSE,
                                    !.unused = TRUE]]

PLP(s, m) == PLP_popped(stack_pop(s))

\* LOGICAL OPERATIONS
AND_data(s, m, d) ==
    flags_from_a(indexed_cycles([s EXCEPT !.a = And8(s.a, d.value)],
                                m, d.cross))

AND(s, m) == AND_data(s, m, get_data(s, m))

EOR_data(s, m, d) ==
    flags_from_a(indexed_cycles([s EXCEPT !.a = Xor8(s.a, d.value)],
                                m, d.cross))

EOR(s, m) == EOR_data(s, m, get_data(s, m))

ORA_data(s, m, d) ==
    flags_from_a(indexed_cycles([s EXCEPT !.a = Or8(s.a, d.value)],
                                m, d.cross))

ORA(s, m) == ORA_data(s, m, get_data(s, m))

\* ARITHMETIC OPERATIONS
\* the flags and the accumulator of ADC and SBC from value, addition, result
add_result(s, m, cross, value, addition, result) ==
    flags_from_a(
        [indexed_cycles(
            [s EXCEPT !.status.carry = addition > 255,
                      !.status.overflow =
                          And8(And8(Xor8(value, result), Xor8(result, s.a)),
                               128) # 0],
            m, cross)
         EXCEPT !.a = result])

add_sum(s, m, cross, value, addition) ==
    add_result(s, m, cross, value, addition, addition % U8)

\* ADC_data, the carry flag not added
ADC_data_without_carry(s, m, d) ==
    add_sum(s, m, d.cross, d.value, (s.a + d.value) % U16)

ADC_data(s, m, d) ==
    add_sum(s, m, d.cross, d.value,
            (s.a + d.value + AsInt(s.status.carry)) % U16)

ADC(s, m) == ADC_data(s, m, get_data(s, m))

\* the write of result to address and the flags from result, shared by the
\* memory forms of DEC, INC, ASL, LSR, ROL, ROR
write_result(s, address, result) ==
    update_zero_and_negative_flags(write(s, address, result), result)

DEC_at(s, address) == write_result(s, address, (read(s, address) - 1) % U8)

DEC(s, m) == DEC_at(s, get_address(s, m).addr)

DEX(s, m) == flags_from_x([s EXCEPT !.x = (s.x - 1) % U8])

DEY(s, m) == flags_from_y([s EXCEPT !.y = (s.y - 1) % U8])

INC_at(s, address) == write_result(s, address, (read(s, address) + 1) % U8)

INC(s, m) == INC_at(s, get_address(s, m).addr)

INX(s, m) == flags_from_x([s EXCEPT !.x = (s.x + 1) % U8])

INY(s, m) == flags_from_y([s EXCEPT !.y = (s.y + 1) % U8])

\* value is the operand after value.wrapping_neg()
SBC_value(s, m, cross, value) ==
    add_sum(s, m, cross, value,
            (s.a + value - AsInt(~s.status.carry)) % U16)

\* SBC_data, the operand complemented (!value) and not negated
SBC_data_complemented(s, m, d) == SBC_value(s, m, d.cross, 255 - d.value)

SBC_data(s, m, d) == SBC_value(s, m, d.cross, (U8 - d.value) % U8)

SBC(s, m) == SBC_data(s, m, get_data(s, m))

\* BIT OPERATIONS
ASL_value(s, address, value) ==
    write_result([s EXCEPT !.status.carry = And8(value, 128) # 0],
                 address, (value * 2) % U8)

ASL_at(s, address) == ASL_value(s, address, read(s, address))

ASL(s, m) ==
    IF m = "Accumulator"
    THEN flags_from_a([s EXCEPT !.status.carry = And8(s.a, 128) # 0,
                                !.a = (s.a * 2) % U8])
    ELSE ASL_at(s, get_address(s, m).addr)

LSR_value(s, address, value) ==
    write_result([s EXCEPT !.status.carry = And8(value, 1) # 0],
                 address, value \div 2)

LSR_at(s, address) == LSR_value(s, address, read(s, address))

LSR(s, m) ==
    IF m = "Accumulator"
    THEN flags_from_a([s EXCEPT !.status.carry = And8(s.a, 1) # 0,
                                !.a = s.a \div 2])
    ELSE LSR_at(s, get_address(s, m).addr)

ROL_value(s, address, value) ==
    write_result([s EXCEPT !.status.carry = And8(value, 128) # 0],
                 address, Or8((value * 2) % U8, AsInt(s.status.carry)))

ROL_at(s, address) == ROL_value(s, address, read(s, address))

ROL(s, m) ==
    IF m = "Accumulator"
    THEN flags_from_a([s EXCEPT !.status.carry = And8(s.a, 128) # 0,
                                !.a = Or8((s.a * 2) % U8,
                                          AsInt(s.status.carry))])
    ELSE ROL_at(s, get_address(s, m).addr)

ROR_value(s, address, value) ==
    write_result([s EXCEPT !.status.carry = And8(value, 1) # 0],
                 address,
                 Or8(value \div 2, (AsInt(s.status.carry) * 128) % U8))

ROR_at(s, address) == ROR_value(s, address, read(s, address))

ROR(s, m) ==
    IF m = "Accumulator"
    THEN flags_from_a([s EXCEPT !.status.carry = And8(s.a, 1) # 0,
                                !.a = Or8(s.a \div 2,
                                          (AsInt(s.status.carry) * 128) % U8)])
    ELSE ROR_at(s, get_address(s, m).addr)

\* SUBROUTINE OPERATIONS
JMP(s, m) == [s EXCEPT !.program_counter = get_address(s, m).addr]

\* pc is the program counter after JSR's += 1
JSR_push(s, address, pc) ==
    [stack_push(stack_push(s, pc \div 256), pc % 256)
        EXCEPT !.program_counter = address]

JSR(s, m) ==
    JSR_push(s, get_address(s, m).addr, (s.program_counter + 1) % U16)

\* s3 is the CPU after the pop of low, s4 after the pop of high
return_to(s4, high, low, offset) ==
    [s4 EXCEPT !.program_counter = (hilo_to_u16(high, low) + offset) % U16]

pop_high(s3, low, offset) ==
    return_to(stack_pop(s3), stack_top(stack_pop(s3)), low, offset)

pop_low(s3, offset) == pop_high(s3, stack_top(s3), offset)

\* RTI, returning to the popped address + 1 as RTS does
RTI_plus_one(s, m) == pop_low(stack_pop(PLP_popped(stack_pop(s))), 1)

RTI(s, m) == pop_low(stack_pop(PLP_popped(stack_pop(s))), 0)

RTS(s, m) == pop_low(stack_pop(s), 1)

\* COMPARISON OPERATIONS
BIT_value(s, value) ==
    [s EXCEPT !.status.zero = (And8(s.a, value) = 0),
              !.status.overflow = And8(value, 64) # 0,
              !.status.negative = And8(value, 128) # 0]

BIT(s, m) == BIT_value(s, read(s, get_address(s, m).addr))

\* register is a, x or y
compare(s, m, register, d, penalty) ==
    update_zero_and_negative_flags(
        IF penalty
        THEN indexed_cycles([s EXCEPT !.status.carry = register >= d.value],
                            m, d.cross)
        ELSE [s EXCEPT !.status.carry = register >= d.value],
        (register - d.value) % U8)

CMP(s, m) == compare(s, m, s.a, get_data(s, m), TRUE)

CPX(s, m) == compare(s, m, s.x, get_data(s, m), FALSE)

CPY(s, m) == compare(s, m, s.y, get_data(s, m), FALSE)

\* BRANCHING OPERATIONS
BCC(s, m) == branch(s, ~s.status.carry)

BCS(s, m) == branch(s, s.status.carry)

BEQ(s, m) == branch(s, s.status.zero)

BMI(s, m) == branch(s, s.status.negative)

BNE(s, m) == branch(s, ~s.status.zero)

BPL(s, m) == branch(s, ~s.status.negative)

BVC(s, m) == branch(s, ~s.status.overflow)

BVS(s, m) == branch(s, s.status.overflow)

\* STATUS & SYSTEM OPERATIONS
\* BRK, the padding byte not skipped
BRK_without_padding(s, m) ==
    [load_vector(
        push_status([push_pc(s) EXCEPT !.status.break_command = TRUE]),
        65534)
     EXCEPT !.status.break_command = FALSE,
            !.complete = TRUE]

\* BRK, the Break flag of the register left set
BRK_leaving_break_set(s, m) ==
    [load_vector(
        push_status(
            [push_pc([s EXCEPT !.program_counter = (s.program_counter + 1) % U16])
                EXCEPT !.status.break_command = TRUE]),
        65534)
     EXCEPT !.complete = TRUE]

BRK(s, m) ==
    [load_vector(
        push_status(
            [push_pc([s EXCEPT !.program_counter = (s.program_counter + 1) % U16])
                EXCEPT !.status.break_command = TRUE]),
        65534)
     EXCEPT !.status.break_command = FALSE,
            !.complete = TRUE]

CLC(s, m) == [s EXCEPT !.status.carry = FALSE]

CLD(s, m) == [s EXCEPT !.status.decimal = FALSE]

CLI(s, m) == [s EXCEPT !.status.interrupt = FALSE]

CLV(s, m) == [s EXCEPT !.status.overflow = FALSE]

NOP(s, m) == s

SEC(s, m) == [s EXCEPT !.status.carry = TRUE]

SED(s, m) == [s EXCEPT !.status.decimal = TRUE]

SEI(s, m) == [s EXCEPT !.status.interrupt = TRUE]

\* the call operation(self, op.addressing_mode) of clock, op.operation
\* being the routine the table names
operation(s, name, m) ==
      CASE name = "ADC" -> ADC(s, m)
        [] name = "AND" -> AND(s, m)
        [] name = "ASL" -> ASL(s, m)
        [] name = "BCC" -> BCC(s, m)
        [] name = "BCS" -> BCS(s, m)
        [] name = "BEQ" -> BEQ(s, m)
        [] name = "BIT" -> BIT(s, m)
        [] name = "BMI" -> BMI(s, m)
        [] name = "BNE" -> BNE(s, m)
        [] name = "BPL" -> BPL(s, m)
        [] name = "BRK" -> BRK(s, m)
        [] name = "BVC" -> BVC(s, m)
        [] name = "BVS" -> BVS(s, m)
        [] name = "CLC" -> CLC(s, m)
        [] name = "CLD" -> CLD(s, m)
        [] name = "CLI" -> CLI(s, m)
        [] name = "CLV" -> CLV(s, m)
        [] name = "CMP" -> CMP(s, m)
        [] name = "CPX" -> CPX(s, m)
        [] name = "CPY" -> CPY(s, m)
        [] name = "DEC" -> DEC(s, m)
        [] name = "DEX" -> DEX(s, m)
        [] name = "DEY" -> DEY(s, m)
        [] name = "EOR" -> EOR(s, m)
        [] name = "INC" -> INC(s, m)
        [] name = "INX" -> INX(s, m)
        [] name = "INY" -> INY(s, m)
        [] name = "JMP" -> JMP(s, m)
        [] name = "JSR" -> JSR(s, m)
        [] name = "LDA" -> LDA(s, m)
        [] name = "LDX" -> LDX(s, m)
        [] name = "LDY" -> LDY(s, m)
        [] name = "LSR" -> LSR(s, m)
        [] name = "NOP" -> NOP(s, m)
        [] name = "ORA" -> ORA(s, m)
        [] name = "PHA" -> PHA(s, m)
        [] name = "PHP" -> PHP(s, m)
        [] name = "PLA" -> PLA(s, m)
        [] name = "PLP" -> PLP(s, m)
        [] name = "ROL" -> ROL(s, m)
        [] name = "ROR" -> ROR(s, m)
        [] name = "RTI" -> RTI(s, m)
        [] name = "RTS" -> RTS(s, m)
        [] name = "SBC" -> SBC(s, m)
        [] name = "SEC" -> SEC(s, m)
        [] name = "SED" -> SED(s, m)
        [] name = "SEI" -> SEI(s, m)
        [] name = "STA" -> STA(s, m)
        [] name = "STX" -> STX(s, m)
        [] name = "STY" -> STY(s, m)
        [] name = "TAX" -> TAX(s, m)
        [] name = "TAY" -> TAY(s, m)
        [] name = "TSX" -> TSX(s, m)
        [] name = "TXA" -> TXA(s, m)
        [] name = "TXS" -> TXS(s, m)
        [] name = "TYA" -> TYA(s, m)


\* ------------------------------------------------------------------------
\* cpu.rs: the public entry points
\* ------------------------------------------------------------------------
\* new, the program counter at 0x0600, where CPU::load puts a program
new_at_0600(bus) ==
    [ram |-> bus,
     status |-> from_byte(36),
     a |-> 0, x |-> 0, y |-> 0,
     stack_pointer |-> 253,
     program_counter |-> 1536,
     cycles |-> 0,
     complete |-> FALSE,
     panicked |-> FALSE,
     overflow_checks |-> FALSE]

\* CPU::new(bus); overflow_checks is the build profile of the call at hand
new(bus) ==
    [ram |-> bus,
     status |-> from_byte(36),
     a |-> 0, x |-> 0, y |-> 0,
     stack_pointer |-> 253,
     program_counter |-> 0,
     cycles |-> 0,
     complete |-> FALSE,
     panicked |-> FALSE,
     overflow_checks |-> FALSE]

panic(s) == [s EXCEPT !.panicked = TRUE]

\* advance, adding the whole length of the instruction
advance_full_length(s2, pg_state, op) ==
    IF s2.program_counter = pg_state
    THEN [s2 EXCEPT !.program_counter = (s2.program_counter + op.bytes) % U16]
    ELSE s2

\* `if self.program_counter == pg_state { self.program_counter +=
\* (op.bytes as u16) - 1; }`, s2 being the CPU the routine leaves
advance(s2, pg_state, op) ==
    IF s2.program_counter = pg_state
    THEN IF s2.overflow_checks /\ s2.program_counter + (op.bytes - 1) >= U16
         THEN panic(s2)
         ELSE [s2 EXCEPT !.program_counter =
                  (s2.program_counter + (op.bytes - 1)) % U16]
    ELSE s2

\* from `let pg_state` on, s1 being the CPU after `self.program_counter += 1;
\* self.cycles = op.cycles`; an overflowing addition of get_address panics
\* inside the routine
run_operation(s1, op) ==
    IF s1.overflow_checks /\ get_address(s1, op.addressing_mode).ovf
    THEN panic(s1)
    ELSE advance(operation(s1, op.name, op.addressing_mode),
                 s1.program_counter, op)

\* some_op, without `self.cycles = op.cycles`
some_op_keeping_cycles(s, op) ==
    IF s.overflow_checks /\ s.program_counter + 1 >= U16
    THEN panic(s)
    ELSE run_operation(
             [s EXCEPT !.program_counter = (s.program_counter + 1) % U16],
             op)

\* the arm Some(op) of the match
some_op(s, op) ==
    IF s.overflow_checks /\ s.program_counter + 1 >= U16
    THEN panic(s)
    ELSE run_operation(
             [s EXCEPT !.program_counter = (s.program_counter + 1) % U16,
                       !.cycles = op.cycles],
             op)

\* match_opcode, the program counter advanced before the arm None panics
match_opcode_early_advance(s, opcode) ==
    IF opcode \notin DOMAIN OPCODES
    THEN panic([s EXCEPT !.program_counter = (s.program_counter + 1) % U16])
    ELSE some_op(s, OPCODES[opcode])

\* match OPCODES.get(&opcode)
match_opcode(s, opcode) ==
    IF opcode \notin DOMAIN OPCODES
    THEN panic(s)
    ELSE some_op(s, OPCODES[opcode])

\* the body of `if self.cycles == 0 { ... }` in clock
fetch_execute(s) == match_opcode(s, read(s, s.program_counter))

\* `self.cycles -= 1`, s1 being the CPU after the if.  cycles is a u64: the
\* model holds it as an integer, and a decrement of 0 (which wraps to
\* 2^64 - 1 without overflow checks) as -1
decrement(s1) ==
    IF s1.panicked
    THEN s1
    ELSE IF s1.overflow_checks /\ s1.cycles = 0
    THEN panic(s1)
    ELSE [s1 EXCEPT !.cycles = s1.cycles - 1]

\* clock, with the decrement in an else branch of the fetch
clock_decrement_in_else(s) ==
    IF s.cycles = 0
    THEN fetch_execute(s)
    ELSE [s EXCEPT !.cycles = s.cycles - 1]

\* clock, fetching as soon as one cycle is left
clock_fetch_at_one(s) ==
    decrement(IF s.cycles <= 1 THEN fetch_execute(s) ELSE s)

clock(s) == decrement(IF s.cycles = 0 THEN fetch_execute(s) ELSE s)

\* reset, also clearing the halted latch
reset_clearing_complete(s) ==
    [load_vector(s, 65532)
        EXCEPT !.a = 0, !.x = 0, !.y = 0,
               !.stack_pointer = 253,
               !.complete = FALSE,
               !.cycles = 8]

\* reset, also putting the flags back to those of new()
reset_with_status(s) ==
    [load_vector(s, 65532)
        EXCEPT !.a = 0, !.x = 0, !.y = 0,
               !.stack_pointer = 253,
               !.status = from_byte(36),
               !.cycles = 8]

\* reset, adding its eight cycles to the cycles owed
reset_adding_cycles(s) ==
    [load_vector(s, 65532)
        EXCEPT !.a = 0, !.x = 0, !.y = 0,
               !.stack_pointer = 253,
               !.cycles = s.cycles + 8]

reset(s) ==
    [load_vector(s, 65532)
        EXCEPT !.a = 0, !.x = 0, !.y = 0,
               !.stack_pointer = 253,
               !.cycles = 8]

\* self.status.break_command = false; self.status.unused = true;
\* self.status.interrupt = true;
interrupt_flags(s) ==
    [s EXCEPT !.status.break_command = FALSE,
              !.status.unused = TRUE,
              !.status.interrupt = TRUE]

\* nmi, billed the 7 cycles of irq
nmi_seven_cycles(s) ==
    [load_vector(push_status(interrupt_flags(push_pc(s))), 65530)
        EXCEPT !.cycles = 7]

nmi(s) ==
    [load_vector(push_status(interrupt_flags(push_pc(s))), 65530)
        EXCEPT !.cycles = 8]

\* irq, without the test of the interrupt-disable flag
irq_unmasked(s) ==
    [load_vector(push_status(interrupt_flags(push_pc(s))), 65534)
        EXCEPT !.cycles = 7]

irq(s) ==
    IF ~s.status.interrupt
    THEN [load_vector(push_status(interrupt_flags(push_pc(s))), 65534)
             EXCEPT !.cycles = 7]
    ELSE s

\* ------------------------------------------------------------------------
\* The state: the fields of the CPU, and the history the properties read
\* ------------------------------------------------------------------------
\* the CPU record of the current state, for a call built with or without
\* overflow checks
CPU(checks) ==
    [ram |-> ram, status |-> status, a |-> a, x |-> x, y |-> y,
     stack_pointer |-> stack_pointer, program_counter |-> program_counter,
     cycles |-> cycles, complete |-> complete, panicked |-> panicked,
     overflow_checks |-> checks]

Install(t) ==
    /\ ram' = t.ram
    /\ status' = t.status
    /\ a' = t.a
    /\ x' = t.x
    /\ y' = t.y
    /\ stack_pointer' = t.stack_pointer
    /\ program_counter' = t.program_counter
    /\ cycles' = t.cycles
    /\ complete' = t.complete
    /\ panicked' = t.panicked

\* history: what the fields were before the last call
Snapshot ==
    [ram |-> ram, status |-> status, a |-> a, x |-> x, y |-> y,
     stack_pointer |-> stack_pointer, program_counter |-> program_counter,
     cycles |-> cycles, complete |-> complete, call |-> call]

\* history: the instruction in flight; ticks counts the clock calls from the
\* one that fetched it, billed is the cycle counter its routine left, clean
\* tells that no reset, nmi or irq was called since the fetch
NoInstr == [valid |-> FALSE, ticks |-> 0, billed |-> 0, clean |-> FALSE]

\* history of a run of the stack primitives: the stack pointer it starts
\* from, the bytes it is to push, how many of them were pushed and the bytes
\* the pops returned
NoLifo == [start |-> 0, input |-> <<>>, pushed |-> 0, pops |-> <<>>]

\* history of a conversion of the status word: the function applied, the
\* flags p and the byte b it took or gave
NoConv == [fn |-> "none", p |-> from_byte(0), b |-> 0]

\* history of a resolution of an effective address: the addressing mode, the
\* 16-bit base and the index register it was given, and the pair (addr,
\* cross) it returned
NoRes == [mode |-> "none", base |-> 0, index |-> 0, addr |-> 0,
          cross |-> FALSE]

\* history of the last reset(), nmi() or accepted irq(): its name, the
\* clock() calls made since, the cycles that were owed when it was called,
\* and the fields of the CPU as it left them
NoEntry ==
    [name |-> "none", ticks |-> 0, owed |-> 0, ram |-> <<>>,
     status |-> from_byte(0), a |-> 0, x |-> 0, y |-> 0, stack_pointer |-> 0,
     program_counter |-> 0, complete |-> FALSE]

\* ------------------------------------------------------------------------
\* The buses given to CPU::new
\* ------------------------------------------------------------------------
\* the bytes of seq written from address base on, as a function
Bytes(base, seq) ==
    [k \in {(base + i - 1) % U16 : i \in 1 .. Len(seq)} |->
        seq[((k - base) % U16) + 1]]

\* a bus with the bytes of f written to it
BusWith(f) == [k \in {k \in DOMAIN f : f[k] # 0} |-> f[k]]

\* CPU::load's convention: the program at 0x0600, the reset vector on it
Loaded(program) == Bytes(1536, program) @@ Bytes(65532, <<0, 6>>)

Image(f, calls, intrs) == [bus |-> BusWith(f), calls |-> calls, intrs |-> intrs]

\* the scenarios S1..S7 of the specification, run from reset (S2 and S7
\* after an LDA that sets A)
ScenarioImages ==
    { Image(f, MaxCalls, MaxIntr) : f \in
        { Loaded(<<169, 66>>),
          Loaded(<<169, 80, 105, 80>>),
          Loaded(<<32, 9, 6, 169, 1, 0, 0, 0, 0, 169, 2, 96>>),
          Loaded(<<208, 127>>),
          Loaded(<<36, 16>>) @@ Bytes(16, <<192>>),
          Loaded(<<108, 0, 48>>) @@ Bytes(12288, <<52, 18>>),
          Loaded(<<169, 85, 162, 0, 154, 72, 72>>) } }

\* programs to interrupt: LDA #$80, CLI, PHA, SEC, NOP at 0x0000 and NOPs
\* before a reset to CLI, NOP, BRK at 0x0600; RTI at the targets of the nmi
\* and irq vectors; LDX #1, TXS, CLI and NOPs at 0x0000, to interrupt with
\* the stack about to wrap; and the empty bus
InterruptImages ==
    { Image(f, MaxShortCalls + 4, MaxIntr + 1) : f \in
        { Bytes(0, <<169, 128, 88, 72, 56, 234>>)
            @@ Bytes(65530, <<0, 7, 0, 6, 16, 7>>)
            @@ Bytes(1536, <<232, 0>>) @@ Bytes(1792, <<64>>)
            @@ Bytes(1808, <<64>>),
          Bytes(0, <<234, 234>>) @@ Bytes(65530, <<0, 7, 0, 6, 16, 7>>)
            @@ Bytes(1536, <<88, 234, 0>>) @@ Bytes(1792, <<64>>)
            @@ Bytes(1808, <<234, 64>>),
          Bytes(0, <<162, 1, 154, 88, 234, 234, 234>>)
            @@ Bytes(65530, <<0, 7, 0, 6, 16, 7>>)
            @@ Bytes(1536, <<234, 0>>) @@ Bytes(1792, <<64>>)
            @@ Bytes(1808, <<64>>),
          Bytes(0, <<0>>) } }

\* one branch at 0x0000 under the flags of new(), or after a PLP that sets
\* carry, zero, overflow and negative: every branch opcode, every offset;
\* and BNE next to the ends of a page and of the address space, after a JMP
\* to it
BranchOpcodes == {16, 48, 80, 112, 144, 176, 208, 240}

BranchImages ==
    { Image(Bytes(0, <<op, off>>), MaxShortCalls, 0) :
        op \in BranchOpcodes, off \in Byte }
    \cup
    { Image(Bytes(0, <<40, op, off>>) @@ Bytes(510, <<231>>),
            MaxShortCalls, 0) :
        op \in BranchOpcodes, off \in Byte }
    \cup
    { Image(Bytes(0, <<76, lo % 256, lo \div 256>>) @@ Bytes(lo, <<op, off>>),
            MaxShortCalls, 0) :
        op \in {208}, off \in {0, 1, 2, 3, 126, 127, 128, 129, 253, 254, 255},
        lo \in {1536, 1660, 1789, 1790, 65533, 65534} }

\* JMP absolute and indirect at 0x0000 to targets of every low byte; JSR at
\* 0x0000 to targets next to it and to an RTS
JumpImages ==
    { Image(Bytes(0, <<76, lo, hi>>) @@ Bytes(hi * 256 + lo, <<234>>),
            MaxShortCalls, 0) :
        lo \in Byte, hi \in {0, 18, 255} }
    \cup
    { Image(Bytes(0, <<108, 16, 0>>) @@ Bytes(16, <<lo, hi>>),
            MaxShortCalls, 0) :
        lo \in {0, 1, 2, 3, 52, 255}, hi \in {0, 18, 255} }
    \cup
    { Image(Bytes(0, <<32, lo, 0>>) @@ Bytes(16, <<96>>), MaxShortCalls, 0) :
        lo \in {1, 2, 3, 16} }
    \cup
    { Image(Bytes(0, <<108, 255, hi>>) @@ Bytes(hi * 256 + 255, <<52, 18>>),
            MaxShortCalls, 0) :
        hi \in {2, 255} }

\* every byte as the opcode at 0x0003 after LDX #$FF and LDY, with operand
\* bytes that make the modes wrap and cross pages; some data in memory
OperandPairs == {<<16, 0>>, <<1, 2>>, <<255, 0>>, <<255, 255>>, <<0, 3>>}

Data ==
    Bytes(14, <<128, 255, 192, 2, 1>>) @@ Bytes(255, <<5, 3, 127>>)
      @@ Bytes(508, <<129, 195, 7>>) @@ Bytes(768, <<64, 129>>)

OpcodeImages ==
    { Image(Bytes(0, <<162, 255, 160, yv, op, p[1], p[2]>>) @@ Data,
            MaxShortCalls + 4, 0) :
        op \in Byte, p \in OperandPairs, yv \in {0, 255} }

\* every instruction of mode IndirectX at 0x0002 after an LDX, the operand
\* and X making the pointer 0xFD, 0xFE, 0xFF, 0x00 and 0x01; the pointer
\* 0x00FF/0x0100 holds 0x0305 and 0x00FF/0x0000 holds 0xA205
IndirectXOpcodes == {1, 33, 65, 97, 129, 161, 193, 225}

IndirectXImages ==
    { Image(Bytes(0, <<162, xv, op, operand>>) @@ Bytes(253, <<6, 3, 5, 3>>)
              @@ Bytes(773, <<77, 78>>) @@ Bytes(41477, <<79>>),
            MaxShortCalls, 0) :
        op \in IndirectXOpcodes, xv \in {0, 1, 255}, operand \in {0, 254, 255} }

\* SEC, SED, PHP, PLP at 0x0000; and a PLP or an RTI at 0x0000 that pops
\* 0xD3, a byte with Break set and Unused clear
StackImages ==
    { Image(Bytes(0, <<56, 248, 8, 40>>), MaxShortCalls, 0) }
    \cup
    { Image(Bytes(0, <<op>>) @@ Bytes(510, <<211, 16>>), MaxShortCalls, 0) :
        op \in {40, 64} }

\* an opcode fetched at the top of the address space, after a JMP to it
TopImages ==
    { Image(Bytes(0, <<76, pc % 256, pc \div 256>>) @@ Bytes(pc, <<op, 7, 76>>)
              @@ Bytes(19463, <<99, 18>>),
            MaxShortCalls + 4, 0) :
        op \in {234, 169, 173, 76, 108, 32, 189, 0, 2, 208, 161},
        pc \in {65533, 65534, 65535} }

Images ==
    ScenarioImages \cup InterruptImages \cup BranchImages \cup JumpImages
      \cup OpcodeImages \cup TopImages \cup IndirectXImages \cup StackImages

\* ------------------------------------------------------------------------
\* Init and the actions
\* ------------------------------------------------------------------------
\* the state after construction: the CPU s, no call made yet
Begin(s, calls, intrs, run) ==
    /\ ram = s.ram
    /\ status = s.status
    /\ a = s.a
    /\ x = s.x
    /\ y = s.y
    /\ stack_pointer = s.stack_pointer
    /\ program_counter = s.program_counter
    /\ cycles = s.cycles
    /\ complete = s.complete
    /\ panicked = s.panicked
    /\ call = "new"
    /\ prev = [ram |-> s.ram, status |-> s.status, a |-> s.a,
               x |-> s.x, y |-> s.y,
               stack_pointer |-> s.stack_pointer,
               program_counter |-> s.program_counter,
               cycles |-> s.cycles, complete |-> s.complete,
               call |-> "new"]
    /\ instr = NoInstr
    /\ done = NoInstr
    /\ budget = calls
    /\ intr = intrs
    /\ lifo = run
    /\ conv = NoConv
    /\ entry = NoEntry

Init ==
    /\ \E img \in Images :
          Begin(new(img.bus), img.calls, img.intrs, NoLifo)
    /\ res = NoRes

\* history of a call of clock() on the CPU s, f being what the fetch of an
\* instruction makes of s
Track(s, f) ==
    /\ instr' = IF s.cycles = 0 /\ ~f.panicked
                THEN [valid |-> TRUE, ticks |-> 1,
                      billed |-> f.cycles, clean |-> TRUE]
                ELSE IF instr.valid /\ s.cycles # 0
                THEN [instr EXCEPT !.ticks = @ + 1]
                ELSE instr
    /\ done' = IF s.cycles = 0 /\ ~f.panicked THEN instr ELSE done

\* a call of clock()
Tick ==
    /\ ~panicked
    /\ budget > 0
    /\ \E checks \in BOOLEAN :
          /\ Install(clock(CPU(checks)))
          /\ Track(CPU(checks), fetch_execute(CPU(checks)))
    /\ call' = "clock"
    /\ prev' = Snapshot
    /\ budget' = budget - 1
    /\ entry' = IF entry.name # "none"
                THEN [entry EXCEPT !.ticks = @ + 1]
                ELSE entry
    /\ UNCHANGED <<intr, lifo, conv, res>>

\* a call of reset(), nmi() or irq()
Interrupt(name, t) ==
    /\ ~panicked
    /\ budget > 0
    /\ intr > 0
    /\ Install(t)
    /\ call' = name
    /\ prev' = Snapshot
    /\ instr' = NoInstr
    /\ done' = done
    /\ budget' = budget - 1
    /\ intr' = intr - 1
    /\ entry' = IF name = "irq" /\ status.interrupt
                THEN entry
                ELSE [name |-> name, ticks |-> 0, owed |-> cycles,
                      ram |-> t.ram, status |-> t.status, a |-> t.a,
                      x |-> t.x, y |-> t.y,
                      stack_pointer |-> t.stack_pointer,
                      program_counter |-> t.program_counter,
                      complete |-> t.complete]
    /\ UNCHANGED <<lifo, conv, res>>

Reset == Interrupt("reset", reset(CPU(FALSE)))

Nmi == Interrupt("nmi", nmi(CPU(FALSE)))

Irq == Interrupt("irq", irq(CPU(FALSE)))

Next == Tick \/ Reset \/ Nmi \/ Irq

Spec == Init /\ [][Next]_vars

\* ------------------------------------------------------------------------
\* The stack primitives on their own: stack_push of the bytes of an input,
\* one after the other, and then stack_pop
\* ------------------------------------------------------------------------
\* the bytes seed + 1, seed + 2, ... modulo period: with a period that does
\* not divide 256, the byte pushed 256 pushes later is another one
Input(seed, period) == [i \in 1 .. MaxPush |-> (seed + i) % period]

StackInputs == {Input(0, 255), Input(7, 251)}

StackStarts == {0, 253}

\* page 1 is not empty when the run starts
StackBus == BusWith(Bytes(256, <<9, 8>>) @@ Bytes(509, <<7, 6, 5>>))

StackInit ==
    \E start \in StackStarts, input \in StackInputs :
        /\ Begin([new(StackBus) EXCEPT !.stack_pointer = start], MaxPush, 0,
                 [start |-> start, input |-> input, pushed |-> 0,
                  pops |-> <<>>])
        /\ res = NoRes

\* the rest of a call of stack_push or stack_pop
StackCall(name) ==
    /\ call' = name
    /\ prev' = Snapshot
    /\ UNCHANGED <<instr, done, budget, intr, conv, res, entry>>

\* self.stack_push(b), b the next byte of the input
StackPush ==
    /\ lifo.pops = <<>>
    /\ lifo.pushed < Len(lifo.input)
    /\ Install(stack_push(CPU(FALSE), lifo.input[lifo.pushed + 1]))
    /\ lifo' = [lifo EXCEPT !.pushed = @ + 1]
    /\ StackCall("stack_push")

\* self.stack_pop(), once for every byte pushed
StackPop ==
    /\ Len(lifo.pops) < lifo.pushed
    /\ Install(stack_pop(CPU(FALSE)))
    /\ lifo' = [lifo EXCEPT !.pops = Append(@, stack_top(stack_pop(CPU(FALSE))))]
    /\ StackCall("stack_pop")

StackNext == StackPush \/ StackPop

StackSpec == StackInit /\ [][StackNext]_vars

\* ------------------------------------------------------------------------
\* The conversions of the status word on their own: to_byte of the flags of
\* the CPU, and from_byte of a byte into them.  They are no calls of the
\* CPU: call and prev stay as construction left them.  A run converts one
\* byte at most, and then the flags it got.
\* ------------------------------------------------------------------------
\* every value of Status
Flags ==
    [carry : BOOLEAN, zero : BOOLEAN, interrupt : BOOLEAN, decimal : BOOLEAN,
     break_command : BOOLEAN, unused : BOOLEAN, overflow : BOOLEAN,
     negative : BOOLEAN]

StatusInit ==
    /\ \E p \in Flags :
          Begin([new(BusWith(<<>>)) EXCEPT !.status = p], 0, 0, NoLifo)
    /\ res = NoRes

\* self.status.to_byte()
ToByte ==
    /\ conv.fn # "to_byte"
    /\ conv' = [fn |-> "to_byte", p |-> status, b |-> to_byte(status)]
    /\ UNCHANGED <<ram, status, a, x, y, stack_pointer, program_counter,
                   complete, cycles, panicked, call, prev, instr, done,
                   budget, intr, lifo, res, entry>>

\* self.status = Status::from_byte(b)
FromByte ==
    \E b \in Byte :
        /\ conv.fn = "none"
        /\ status' = from_byte(b)
        /\ conv' = [fn |-> "from_byte", p |-> from_byte(b), b |-> b]
        /\ UNCHANGED <<ram, a, x, y, stack_pointer, program_counter,
                       complete, cycles, panicked, call, prev, instr, done,
                       budget, intr, lifo, res, entry>>

StatusNext == ToByte \/ FromByte

StatusSpec == StatusInit /\ [][StatusNext]_vars

\* ------------------------------------------------------------------------
\* get_address on its own, in the three modes that report a page cross: the
\* operand bytes at PC = 0 name the base (AbsoluteX, AbsoluteY) or the
\* zero-page pointer that holds it (IndirectY), X or Y holds the index
\* ------------------------------------------------------------------------
IndexedModes == {"AbsoluteX", "AbsoluteY", "IndirectY"}

\* high and low bytes of the bases: the ends and the middle of the address
\* space and of a page
BaseHighs == {0, 1, 18, 127, 128, 254, 255}

BaseLows == {0, 1, 2, 127, 128, 129, 253, 254, 255}

\* zero-page pointers of IndirectY, the last one with its high byte at
\* 0x0100
Pointers == {16, 254, 255}

\* the bus and registers get_address is called with
Operands(mode, low, high, pointer, index) ==
    [new(BusWith(IF mode = "IndirectY"
                 THEN Bytes(0, <<pointer>>) @@ Bytes(pointer, <<low, high>>)
                 ELSE Bytes(0, <<low, high>>)))
        EXCEPT !.x = IF mode = "AbsoluteX" THEN index ELSE 0,
               !.y = IF mode = "AbsoluteX" THEN 0 ELSE index]

ResolveInit ==
    \E mode \in IndexedModes, low \in BaseLows, high \in BaseHighs,
       pointer \in Pointers, index \in Byte :
        /\ mode # "IndirectY" => pointer = 16
        /\ Begin(Operands(mode, low, high, pointer, index), 0, 0, NoLifo)
        /\ res = [mode |-> mode, base |-> hilo_to_u16(high, low),
                  index |-> index, addr |-> 0, cross |-> FALSE]

\* let (address, page_boundary_cross) = self.get_address(mode)
Resolve ==
    /\ call = "new"
    /\ res' = [res EXCEPT
                  !.addr = get_address(CPU(FALSE), res.mode).addr,
                  !.cross = get_address(CPU(FALSE), res.mode).cross]
    /\ call' = "get_address"
    /\ prev' = Snapshot
    /\ UNCHANGED <<ram, status, a, x, y, stack_pointer, program_counter,
                   complete, cycles, panicked, instr, done, budget, intr,
                   lifo, conv, entry>>

ResolveNext == Resolve

ResolveSpec == ResolveInit /\ [][ResolveNext]_vars

\* ------------------------------------------------------------------------
\* ADC and SBC on their own, in Immediate mode: the operand byte M is the
\* byte at PC = 0
\* ------------------------------------------------------------------------
\* the accumulators: every byte; the operands: the bytes whose high nibble
\* is 0x0, 0x8 or 0xF or whose low nibble is 0x0 or 0xF
Accumulators == Byte

Memories == {m \in Byte : m \div 16 \in {0, 8, 15} \/ m % 16 \in {0, 15}}

ArithInit ==
    /\ \E acc \in Accumulators, m \in Memories, c \in BOOLEAN, d \in BOOLEAN :
          Begin([new(BusWith(Bytes(0, <<m>>)))
                    EXCEPT !.a = acc, !.status.carry = c,
                           !.status.decimal = d],
                0, 0, NoLifo)
    /\ res = NoRes

\* the rest of a call of ADC or SBC
ArithCall(name) ==
    /\ call = "new"
    /\ call' = name
    /\ prev' = Snapshot
    /\ UNCHANGED <<instr, done, budget, intr, lifo, conv, res, entry>>

\* self.ADC(AddressingMode::Immediate)
Adc ==
    /\ Install(ADC(CPU(FALSE), "Immediate"))
    /\ ArithCall("ADC")

\* self.SBC(AddressingMode::Immediate)
Sbc ==
    /\ Install(SBC(CPU(FALSE), "Immediate"))
    /\ ArithCall("SBC")

ArithNext == Adc \/ Sbc

ArithSpec == ArithInit /\ [][ArithNext]_vars

\* ------------------------------------------------------------------------
\* Properties
\* ------------------------------------------------------------------------
\* the last call was a clock() that found the cycle counter at zero
FetchTick == call = "clock" /\ prev.cycles = 0

\* ... and it fetched an opcode of the table and ran it to the end
Fetched == FetchTick /\ ~panicked

PrevOpcode == BusRead(prev.ram, prev.program_counter)

PrevOp == OPCODES[PrevOpcode]

\* the CPU as the routine of the fetched instruction found it
AtOperand ==
    [prev EXCEPT !.program_counter = (prev.program_counter + 1) % U16,
                 !.cycles = PrevOp.cycles]

\* the condition of the branch instruction called name under flags p
BranchCondition(name, p) ==
    CASE name = "BCC" -> ~p.carry
      [] name = "BCS" -> p.carry
      [] name = "BEQ" -> p.zero
      [] name = "BMI" -> p.negative
      [] name = "BNE" -> ~p.zero
      [] name = "BPL" -> ~p.negative
      [] name = "BVC" -> ~p.overflow
      [] name = "BVS" -> p.overflow
      [] OTHER -> FALSE

TransfersControl ==
    \/ PrevOp.name \in {"JMP", "JSR", "RTS", "RTI", "BRK"}
    \/ BranchCondition(PrevOp.name, prev.status)

\* the fields a call can change are what they were before the call
SameRegisters ==
    /\ a = prev.a
    /\ x = prev.x
    /\ y = prev.y
    /\ stack_pointer = prev.stack_pointer
    /\ program_counter = prev.program_counter
    /\ status = prev.status
    /\ complete = prev.complete
    /\ ram = prev.ram

\* C1: cycle budget.  When clock() fetches an instruction and no reset, nmi
\* or irq was called since the fetch of the instruction before it, the clock
\* calls from that earlier fetch up to this one number what the earlier
\* instruction was billed; and what an instruction is billed is the base
\* cycles of its descriptor plus a penalty of 0, 1 (page cross, or branch
\* taken) or 3 (branch taken across pages).
C1_CycleBudget ==
    /\ (Fetched /\ done.valid /\ done.clean) => done.ticks = done.billed
    /\ Fetched => instr.billed - PrevOp.cycles \in {0, 1, 3}

C1_Witness ==
    /\ Fetched
    /\ done.valid
    /\ done.clean
    /\ done.billed = 5
    /\ done.ticks = 5

\* C2: a clock() call that finds the cycle counter above zero takes one off
\* it and changes no register, no flag, not the halted latch and no byte of
\* memory.
C2_IdleTick ==
    (call = "clock" /\ prev.cycles # 0) =>
        /\ cycles = prev.cycles - 1
        /\ SameRegisters
        /\ ~panicked

C2_Witness ==
    /\ call = "clock"
    /\ prev.cycles = 1
    /\ cycles = 0
    /\ PrevOpcode = 169

\* C3: the clock() call that fetches, at address a, an instruction that
\* does not transfer control (an untaken branch included) leaves the program
\* counter at a + length (modulo 65536) and the registers, flags and memory
\* as the instruction's routine leaves them; A9 42 at 0x0600 gives A = 0x42
\* and PC = 0x0602.
C3_SequentialPC ==
    /\ (Fetched /\ ~TransfersControl) =>
          LET r == operation(AtOperand, PrevOp.name, PrevOp.addressing_mode)
          IN  /\ program_counter = (prev.program_counter + PrevOp.bytes) % U16
              /\ a = r.a
              /\ x = r.x
              /\ y = r.y
              /\ stack_pointer = r.stack_pointer
              /\ status = r.status
              /\ ram = r.ram
    /\ (Fetched /\ prev.program_counter = 1536 /\ PrevOpcode = 169
          /\ BusRead(prev.ram, 1537) = 66) =>
          a = 66 /\ program_counter = 1538

C3_Witness ==
    /\ Fetched
    /\ prev.program_counter = 1536
    /\ PrevOpcode = 169
    /\ a = 66
    /\ program_counter = 1538

\* C4: after the clock() call that executes JMP, the program counter is the
\* effective address of the instruction, whatever the target.
C4_JumpTarget ==
    (Fetched /\ PrevOp.name = "JMP") =>
        program_counter = get_address(AtOperand, PrevOp.addressing_mode).addr

\* C5: after the clock() call that executes a branch whose condition holds,
\* the program counter is the address of the operand byte + 1 + the signed
\* offset, modulo 65536, for every offset.
C5_BranchTarget ==
    (Fetched /\ BranchCondition(PrevOp.name, prev.status)) =>
        program_counter =
            (prev.program_counter + 1 + 1
               + AsI8(BusRead(prev.ram, (prev.program_counter + 1) % U16))) % U16

\* the scenario S4: BNE +127 fetched at 0x0600 with the zero flag clear
S4_Executed ==
    /\ Fetched
    /\ prev.program_counter = 1536
    /\ PrevOpcode = 208
    /\ BusRead(prev.ram, 1537) = 127
    /\ ~prev.status.zero

\* C6 as stated: S4 leaves PC = 0x0681 and is billed 5 cycles.
C6_S4_FiveCycles ==
    S4_Executed => program_counter = 1665 /\ instr.billed = 5

\* C6 as amended: S4 leaves PC = 0x0681 and is billed 3 cycles, 2 base + 1
\* taken; 0x0601 and 0x0681 are on one page and no page-cross penalty is
\* added.
C6_S4_ThreeCycles ==
    S4_Executed => program_counter = 1665 /\ instr.billed = 3 /\ cycles = 2

C6_Witness == S4_Executed /\ program_counter = 1665

\* C7: clock() with the cycle counter at zero and a byte at PC that is none
\* of the 151 opcodes of the table ends in the fatal state, with the program
\* counter, the cycle counter, the registers, the flags and memory untouched.
C7_UnknownOpcode ==
    /\ Cardinality(DOMAIN OPCODES) = 151
    /\ (FetchTick /\ PrevOpcode \notin DOMAIN OPCODES) =>
          /\ panicked
          /\ cycles = prev.cycles
          /\ SameRegisters

C7_Witness ==
    /\ FetchTick
    /\ PrevOpcode \notin DOMAIN OPCODES
    /\ panicked
    /\ prev.program_counter = 4

\* C8: reset() loads PC from 0xFFFC/0xFFFD (little-endian), zeroes A, X and
\* Y, sets SP to 0xFD and the cycle counter to 8, and leaves the flags, the
\* halted latch and memory as they were.
C8_Reset ==
    call = "reset" =>
        /\ program_counter =
              BusRead(prev.ram, 65532) + 256 * BusRead(prev.ram, 65533)
        /\ a = 0
        /\ x = 0
        /\ y = 0
        /\ stack_pointer = 253
        /\ cycles = 8
        /\ status = prev.status
        /\ complete = prev.complete
        /\ ram = prev.ram
        /\ ~panicked

C8_Witness ==
    /\ call = "reset"
    /\ prev.a # 0
    /\ prev.status # from_byte(36)
    /\ program_counter = 1536
    /\ prev.program_counter # 1536

\* C9: reset idempotence.  A reset() called right after a reset() changes
\* nothing of the CPU or of memory.
C9_ResetTwice ==
    (call = "reset" /\ prev.call = "reset") =>
        /\ SameRegisters
        /\ cycles = prev.cycles
        /\ ~panicked

C9_Witness ==
    /\ call = "reset"
    /\ prev.call = "reset"
    /\ status # from_byte(36)

\* C10: irq() called with the interrupt-disable flag set changes nothing.
C10_MaskedIrq ==
    (call = "irq" /\ prev.status.interrupt) =>
        /\ SameRegisters
        /\ cycles = prev.cycles
        /\ ~panicked

C10_Witness ==
    /\ call = "irq"
    /\ prev.status.interrupt
    /\ prev.cycles > 0
    /\ prev.program_counter = 1536

\* the bytes call pushed: the high and the low byte of pc and then a status
\* byte, from the stack pointer of before the call downwards, modulo 256
Pushed(pc, byte) ==
    /\ ram = BusWrite(
                BusWrite(
                  BusWrite(prev.ram, 256 + prev.stack_pointer, pc \div 256),
                  256 + ((prev.stack_pointer - 1) % U8), pc % 256),
                256 + ((prev.stack_pointer - 2) % U8), byte)
    /\ stack_pointer = (prev.stack_pointer - 3) % U8

\* the entry of an interrupt: the pushed status byte is the flags of before
\* the call with bit 4 (Break) clear and bits 5 (Unused) and 2 (Interrupt)
\* set
InterruptEntry(vector, cyc) ==
    /\ Pushed(prev.program_counter, Or8(And8(to_byte(prev.status), 203), 36))
    /\ program_counter =
          BusRead(prev.ram, vector) + 256 * BusRead(prev.ram, vector + 1)
    /\ cycles = cyc
    /\ a = prev.a
    /\ x = prev.x
    /\ y = prev.y
    /\ complete = prev.complete
    /\ ~panicked

\* C11: nmi(), and irq() called with the interrupt-disable flag clear, push
\* PC high, PC low and the status byte with Break = 0, Unused = 1,
\* Interrupt = 1 and the other bits as the flags were; SP goes down by 3
\* modulo 256; PC becomes the vector at 0xFFFA/0xFFFB (nmi) or 0xFFFE/0xFFFF
\* (irq); the cycle counter becomes 8 (nmi) or 7 (irq); A, X, Y and the
\* halted latch are unchanged.
C11_InterruptEntry ==
    /\ call = "nmi" => InterruptEntry(65530, 8)
    /\ (call = "irq" /\ ~prev.status.interrupt) => InterruptEntry(65534, 7)

\* an nmi() right after an irq() that was taken with SP = 0x01
C11_Witness ==
    /\ call = "nmi"
    /\ prev.call = "irq"
    /\ prev.cycles = 7
    /\ prev.stack_pointer = 254
    /\ prev.program_counter = 1808
    /\ stack_pointer = 251
    /\ program_counter = 1792
    /\ BusRead(ram, 256) = 4

\* C12: stack LIFO.  From any SP, k <= 256 pushes of b1..bk followed by k
\* pops return bk..b1 in that order, and SP is back at its starting value.
C12_StackLIFO ==
    lifo.pushed <= 256 =>
        /\ \A i \in 1 .. Len(lifo.pops) :
              lifo.pops[i] = lifo.input[lifo.pushed + 1 - i]
        /\ Len(lifo.pops) = lifo.pushed => stack_pointer = lifo.start

\* 256 bytes pushed from SP = 0xFD, the stack pointer wrapping on the way,
\* and all of them popped
C12_Witness ==
    /\ lifo.start = 253
    /\ lifo.pushed = 256
    /\ Len(lifo.pops) = 256
    /\ lifo.pops[1] = 12
    /\ lifo.pops[256] = 8
    /\ call = "stack_pop"

\* the addresses whose byte the last call changed
Changed ==
    {k \in DOMAIN ram \cup DOMAIN prev.ram :
        BusRead(ram, k) # BusRead(prev.ram, k)}

\* the last call was a clock() that fetched the opcode of the instruction
\* called name
FetchOf(name) ==
    /\ FetchTick
    /\ PrevOpcode \in DOMAIN OPCODES
    /\ PrevOp.name = name

\* ... and the instruction ran to its end
Ran(name) == FetchOf(name) /\ ~panicked

\* the stack pointer was moved by n, modulo 256
MovedSP(n) == stack_pointer = (prev.stack_pointer + n) % U8

\* the byte of page 1 that the stack pointer of before the call, moved by
\* n, points to
StackByte(r, n) == BusRead(r, 256 + ((prev.stack_pointer + n) % U8))

\* C13: a push writes 0x0100 + SP and then sets SP to (SP - 1) mod 256; a pop
\* sets SP to (SP + 1) mod 256 and then reads 0x0100 + SP.  The stack
\* accesses of every operation stay within 0x0100..0x01FF and wrap without
\* error: with SP = 0x00, a PHA writes 0x0100 and leaves SP = 0xFF and the
\* next PHA writes 0x01FF and leaves SP = 0xFE.
C13_StackAccess ==
    /\ Ran("PHA") =>
          /\ ram = BusWrite(prev.ram, 256 + prev.stack_pointer, prev.a)
          /\ MovedSP(-1)
    /\ Ran("PHP") =>
          /\ Changed \subseteq {256 + prev.stack_pointer}
          /\ MovedSP(-1)
    /\ Ran("PLA") =>
          /\ MovedSP(1)
          /\ a = StackByte(prev.ram, 1)
          /\ ram = prev.ram
    /\ Ran("PLP") =>
          /\ MovedSP(1)
          /\ And8(to_byte(status), 207) = And8(StackByte(prev.ram, 1), 207)
          /\ ram = prev.ram
    /\ Ran("JSR") =>
          /\ Changed \subseteq {256 + prev.stack_pointer,
                                256 + ((prev.stack_pointer - 1) % U8)}
          /\ MovedSP(-2)
    /\ Ran("RTS") =>
          /\ MovedSP(2)
          /\ program_counter =
                (StackByte(prev.ram, 1) + 256 * StackByte(prev.ram, 2) + 1) % U16
          /\ ram = prev.ram
    /\ Ran("RTI") =>
          /\ MovedSP(3)
          /\ And8(to_byte(status), 207) = And8(StackByte(prev.ram, 1), 207)
          /\ program_counter =
                StackByte(prev.ram, 2) + 256 * StackByte(prev.ram, 3)
          /\ ram = prev.ram
    /\ (Ran("BRK") \/ call = "nmi"
          \/ (call = "irq" /\ ~prev.status.interrupt)) =>
          /\ Changed \subseteq {256 + prev.stack_pointer,
                                256 + ((prev.stack_pointer - 1) % U8),
                                256 + ((prev.stack_pointer - 2) % U8)}
          /\ MovedSP(-3)
    /\ stack_pointer \in Byte
    /\ \A name \in {"PHA", "PHP", "PLA", "PLP", "RTS", "RTI", "BRK"} :
          (FetchOf(name) /\ prev.program_counter < 65535) => ~panicked
    /\ (Ran("PHA") /\ prev.stack_pointer = 0) =>
          stack_pointer = 255 /\ BusRead(ram, 256) = prev.a
    /\ (Ran("PHA") /\ prev.stack_pointer = 255) =>
          stack_pointer = 254 /\ BusRead(ram, 511) = prev.a

\* the second PHA of scenario S7
C13_Witness ==
    /\ Ran("PHA")
    /\ prev.stack_pointer = 255
    /\ stack_pointer = 254
    /\ prev.a = 85
    /\ BusRead(ram, 256) = 85
    /\ BusRead(ram, 511) = 85

\* C14: the halted latch (complete) is false from construction until the
\* first clock() call that executes a BRK, and once true it stays true under
\* every later clock(), reset(), nmi() and irq() call.
C14_HaltedLatch ==
    /\ call = "new" => ~complete
    /\ (complete /\ ~prev.complete) => Ran("BRK")
    /\ Ran("BRK") => complete
    /\ prev.complete => complete

\* a reset() of a halted CPU
C14_Witness ==
    /\ call = "reset"
    /\ prev.call = "clock"
    /\ prev.complete
    /\ complete
    /\ program_counter = 1536

\* C15: the clock() call that executes BRK at address a pushes the high and
\* the low byte of a + 2 and then the status byte with Break = 1, leaves the
\* Break flag of the register clear and the other flags as they were, sets
\* PC to the vector at 0xFFFE/0xFFFF, which the driver does not advance,
\* sets the halted latch and takes 3 off SP modulo 256.
C15_Break ==
    Ran("BRK") =>
        /\ Pushed((prev.program_counter + 2) % U16,
                  Or8(to_byte(prev.status), 16))
        /\ status = [prev.status EXCEPT !.break_command = FALSE]
        /\ program_counter =
              BusRead(prev.ram, 65534) + 256 * BusRead(prev.ram, 65535)
        /\ complete
        /\ a = prev.a
        /\ x = prev.x
        /\ y = prev.y

\* the BRK at 0x0602 after CLI and NOP, the vector pointing to 0x0710
C15_Witness ==
    /\ Ran("BRK")
    /\ prev.program_counter = 1538
    /\ ~prev.status.interrupt
    /\ program_counter = 1808
    /\ StackByte(ram, 0) = 6
    /\ StackByte(ram, -1) = 4
    /\ StackByte(ram, -2) = 48
    /\ complete

\* the clock() call that executes an RTS put at the program counter of the
\* current state, once the cycles owed are spent
RtsNow(checks) ==
    clock([CPU(checks) EXCEPT
              !.ram = BusWrite(ram, program_counter, 96),
              !.cycles = 0])

\* JSR at a pushes the high and the low byte of a + 2 and takes 2 off SP
JsrPushes ==
    /\ ram = BusWrite(
                BusWrite(prev.ram, 256 + prev.stack_pointer,
                         ((prev.program_counter + 2) % U16) \div 256),
                256 + ((prev.stack_pointer - 1) % U8),
                (prev.program_counter + 2) % 256)
    /\ MovedSP(-2)

\* an RTS that finds SP and the two bytes as the JSR left them returns to
\* a + 3 and to the SP of before the JSR
RtsReturns ==
    \A checks \in BOOLEAN :
        (/\ checks => program_counter < 65535
         /\ program_counter \notin {256 + prev.stack_pointer,
                                    256 + ((prev.stack_pointer - 1) % U8)}) =>
            /\ ~RtsNow(checks).panicked
            /\ RtsNow(checks).program_counter = (prev.program_counter + 3) % U16
            /\ RtsNow(checks).stack_pointer = prev.stack_pointer

\* the operand of the JSR fetched by the last call
JsrTarget ==
    BusRead(prev.ram, (prev.program_counter + 1) % U16)
      + 256 * BusRead(prev.ram, (prev.program_counter + 2) % U16)

\* scenario S3 at its BRK
S3_Halted ==
    /\ Ran("BRK")
    /\ prev.program_counter = 1541
    /\ BusRead(prev.ram, 1536) = 32
    /\ BusRead(prev.ram, 1537) = 9
    /\ BusRead(prev.ram, 1538) = 6

\* C16: JSR at address a pushes the high and the low byte of a + 2 and sets
\* PC to its target; an RTS executed with SP and those two bytes as the JSR
\* left them sets PC to a + 3 and SP to its value of before the JSR.
\* Scenario S3 halts with A = 0x01.
C16_JsrRts ==
    /\ Ran("JSR") =>
          /\ JsrPushes
          /\ program_counter = JsrTarget
          /\ RtsReturns
    /\ S3_Halted => a = 1

\* C16 but for the target of the JSR when it is the address of its own
\* operand
C16_JsrRtsElsewhere ==
    /\ Ran("JSR") =>
          /\ JsrPushes
          /\ JsrTarget # (prev.program_counter + 1) % U16 =>
                program_counter = JsrTarget
          /\ RtsReturns
    /\ S3_Halted => a = 1

\* the instructions fetched at the top of the address space do what they do
\* elsewhere, the addresses taken modulo 65536
TopWraps ==
    /\ (Fetched /\ prev.program_counter = 65535 /\ ~TransfersControl) =>
          program_counter = (65535 + PrevOp.bytes) % U16
    /\ (Fetched /\ prev.program_counter = 65534 /\ PrevOpcode = 173) =>
          a = BusRead(prev.ram,
                      BusRead(prev.ram, 65535) + 256 * BusRead(prev.ram, 0))
    /\ (Fetched /\ prev.program_counter = 65534 /\ PrevOpcode = 189) =>
          a = BusRead(prev.ram,
                      (BusRead(prev.ram, 65535) + 256 * BusRead(prev.ram, 0)
                         + prev.x) % U16)
    /\ (Fetched /\ prev.program_counter = 65534 /\ PrevOpcode = 108
          /\ program_counter # 65535) =>
              program_counter =
                  hilo_to_u16(
                    BusRead(prev.ram,
                            (BusRead(prev.ram, 65535)
                               + 256 * BusRead(prev.ram, 0) + 1) % U16),
                    BusRead(prev.ram,
                            BusRead(prev.ram, 65535)
                              + 256 * BusRead(prev.ram, 0)))
    /\ (Ran("JSR") /\ prev.program_counter >= 65533) => JsrPushes

\* C17: all PC arithmetic wraps modulo 65536 without failure: the clock()
\* call that fetches an opcode at 0xFFFF completes with PC at 0xFFFF + length
\* modulo 65536 (unless the instruction transfers control), and the operand
\* bytes addressed as PC + 1 and the return address of JSR wrap from 0xFFFF
\* to 0x0000.
C17_PCWraps ==
    /\ (FetchTick /\ PrevOpcode \in DOMAIN OPCODES) => ~panicked
    /\ TopWraps

\* C17 for the calls that complete
C17_PCWrapsWhenCompleted == TopWraps

\* a NOP fetched at 0xFFFF by a call that completes
C17_TopReached ==
    /\ Fetched
    /\ prev.program_counter = 65535
    /\ PrevOpcode = 234
    /\ program_counter = 0

\* the instructions that write A, X or Y and update Z and N
WritesA ==
    \/ PrevOp.name \in {"LDA", "TXA", "TYA", "PLA", "AND", "EOR", "ORA",
                         "ADC", "SBC"}
    \/ /\ PrevOp.name \in {"ASL", "LSR", "ROL", "ROR"}
       /\ PrevOp.addressing_mode = "Accumulator"

WritesX == PrevOp.name \in {"LDX", "TAX", "TSX", "INX", "DEX"}

WritesY == PrevOp.name \in {"LDY", "TAY", "INY", "DEY"}

\* Zero and Negative are those of the register value r
FlagsOf(r) ==
    /\ status.zero = (r = 0)
    /\ status.negative = (Bit(r, 7) = 1)

\* C18: flag discipline.  After every instruction that writes A, X or Y and
\* updates Z and N, Zero tells that the destination register is 0 and
\* Negative is bit 7 of the destination register.
C18_FlagDiscipline ==
    /\ (Fetched /\ WritesA) => FlagsOf(a)
    /\ (Fetched /\ WritesX) => FlagsOf(x)
    /\ (Fetched /\ WritesY) => FlagsOf(y)

\* a TXA that moves 0xFF into an accumulator that held 0
C18_Witness ==
    /\ Ran("TXA")
    /\ prev.a = 0
    /\ prev.x = 255
    /\ ~prev.status.negative
    /\ a = 255
    /\ status.negative
    /\ ~status.zero

\* C19: in every state reachable from new() through clock, reset, nmi and
\* irq, the status byte that PHP, BRK, nmi or irq wrote to the stack has
\* bit 5 (Unused) set.
C19_PushedUnused ==
    /\ Ran("PHP") => Bit(StackByte(ram, 0), 5) = 1
    /\ (Ran("BRK") \/ call = "nmi"
          \/ (call = "irq" /\ ~prev.status.interrupt)) =>
          Bit(StackByte(ram, -2), 5) = 1

\* a BRK after a PLP that popped 0x07, a byte with bit 5 clear
C19_Witness ==
    /\ Ran("BRK")
    /\ prev.status.carry
    /\ prev.status.zero
    /\ prev.stack_pointer = 254
    /\ StackByte(prev.ram, 0) = 7
    /\ StackByte(ram, -2) = 55

\* the byte b holds the flags p: Carry in bit 0, Zero in bit 1, Interrupt in
\* bit 2, Decimal in bit 3, Break in bit 4, Unused in bit 5, Overflow in
\* bit 6, Negative in bit 7
Packs(b, p) ==
    /\ b \in Byte
    /\ p \in Flags
    /\ p.carry = (Bit(b, 0) = 1)
    /\ p.zero = (Bit(b, 1) = 1)
    /\ p.interrupt = (Bit(b, 2) = 1)
    /\ p.decimal = (Bit(b, 3) = 1)
    /\ p.break_command = (Bit(b, 4) = 1)
    /\ p.unused = (Bit(b, 5) = 1)
    /\ p.overflow = (Bit(b, 6) = 1)
    /\ p.negative = (Bit(b, 7) = 1)

\* C20: status round trip.  from_byte(to_byte(p)) = p for every status
\* value p and to_byte(from_byte(b)) = b for every byte b, with the bit
\* positions Carry 0, Zero 1, Interrupt 2, Decimal 3, Break 4, Unused 5,
\* Overflow 6, Negative 7.
C20_StatusRoundTrip ==
    /\ conv.fn = "to_byte" =>
          /\ from_byte(conv.b) = conv.p
          /\ Packs(conv.b, conv.p)
    /\ conv.fn = "from_byte" =>
          /\ to_byte(conv.p) = conv.b
          /\ Packs(conv.b, conv.p)

\* to_byte of the flags Negative, Unused, Interrupt and Carry
C20_Witness ==
    /\ conv.fn = "to_byte"
    /\ conv.b = 165
    /\ conv.p.negative
    /\ conv.p.unused
    /\ conv.p.interrupt
    /\ conv.p.carry
    /\ ~conv.p.overflow

\* the last call was the first call made on the CPU, and it was clock()
FirstTick == call = "clock" /\ prev.call = "new"

\* C21: new(bus) leaves A = X = Y = 0, SP = 0xFD, PC = 0, the cycle counter
\* at 0, the halted latch false and the status byte 0x24 (Interrupt and
\* Unused set, the other flags clear), and does not touch the bus; so the
\* first clock() call, made without a reset(), fetches the opcode at address
\* 0x0000 and runs its instruction.
C21_Construction ==
    /\ call = "new" =>
          /\ a = 0
          /\ x = 0
          /\ y = 0
          /\ stack_pointer = 253
          /\ program_counter = 0
          /\ cycles = 0
          /\ ~complete
          /\ ~panicked
          /\ to_byte(status) = 36
          /\ status = [carry |-> FALSE, zero |-> FALSE, interrupt |-> TRUE,
                       decimal |-> FALSE, break_command |-> FALSE,
                       unused |-> TRUE, overflow |-> FALSE,
                       negative |-> FALSE]
          /\ ram = prev.ram
    /\ FirstTick =>
          /\ FetchTick
          /\ prev.program_counter = 0
          /\ PrevOpcode = BusRead(prev.ram, 0)
          /\ PrevOpcode \notin DOMAIN OPCODES => panicked
          /\ ~panicked =>
                /\ instr.valid
                /\ instr.ticks = 1
                /\ instr.billed >= PrevOp.cycles
                /\ cycles = instr.billed - 1

\* the first clock() call on a bus with LDA #$80 at 0x0000
C21_Witness ==
    /\ FirstTick
    /\ PrevOpcode = 169
    /\ a = 128
    /\ status.negative
    /\ program_counter = 2
    /\ cycles = 1

\* the last call fetched a branch instruction and ran it to the end
BranchRan ==
    /\ Fetched
    /\ PrevOp.name \in {"BCC", "BCS", "BEQ", "BMI", "BNE", "BPL", "BVC", "BVS"}

\* the address of the operand byte of the instruction fetched
OperandAddress == (prev.program_counter + 1) % U16

\* operand address + 1 + signed offset, modulo 65536
BranchTarget ==
    (OperandAddress + 1 + AsI8(BusRead(prev.ram, OperandAddress))) % U16

\* C22: branch cost.  An untaken branch is billed its base 2 cycles and
\* leaves PC at the opcode address + 2; a taken branch is billed base + 1,
\* and 2 more exactly when the high byte of the new PC (operand address + 1
\* + offset) differs from the high byte of the address of the operand byte.
C22_BranchCost ==
    /\ (BranchRan /\ ~BranchCondition(PrevOp.name, prev.status)) =>
          /\ PrevOp.cycles = 2
          /\ instr.billed = 2
          /\ cycles = 1
          /\ program_counter = (prev.program_counter + 2) % U16
    /\ (BranchRan /\ BranchCondition(PrevOp.name, prev.status)) =>
          /\ instr.billed =
                PrevOp.cycles + 1
                  + (IF BranchTarget \div 256 # OperandAddress \div 256
                     THEN 2 ELSE 0)
          /\ cycles = instr.billed - 1

\* BNE +0 at 0x06FE, taken: the operand byte is the last byte of page 6 and
\* the target 0x0700 the first of page 7
C22_Witness ==
    /\ BranchRan
    /\ prev.program_counter = 1790
    /\ PrevOpcode = 208
    /\ BusRead(prev.ram, 1791) = 0
    /\ program_counter = 1792
    /\ instr.billed = 5

\* the last call fetched an opcode of the table whose mode is IndirectX,
\* below the top of the address space
FetchIndirectX ==
    /\ FetchTick
    /\ PrevOpcode \in DOMAIN OPCODES
    /\ PrevOp.addressing_mode = "IndirectX"
    /\ prev.program_counter + PrevOp.bytes < U16

\* ptr = (mem[PC] + X) mod 256 of the instruction fetched
Pointer == (BusRead(prev.ram, OperandAddress) + prev.x) % U8

\* mem[ptr] | (mem[ptr + 1] << 8), ptr + 1 taken without zero-page wrap
UnwrappedAddress ==
    BusRead(prev.ram, Pointer) + 256 * BusRead(prev.ram, Pointer + 1)

\* the instruction fetched used the effective address ea: LDA loaded A from
\* it and STA stored A to it
UsedAddress(ea) ==
    /\ PrevOp.name = "LDA" => a = BusRead(prev.ram, ea)
    /\ PrevOp.name = "STA" => ram = BusWrite(prev.ram, ea, prev.a)

\* C23: in IndirectX mode with ptr = (mem[PC] + X) mod 256 the effective
\* address is mem[ptr] | (mem[ptr + 1] << 8), ptr + 1 taken without zero-page
\* wrap (for ptr = 0xFF the high byte comes from 0x0100), and the resolution
\* succeeds for every operand byte and every X.
C23_IndirectX ==
    /\ FetchIndirectX => ~panicked
    /\ (FetchIndirectX /\ ~panicked) => UsedAddress(UnwrappedAddress)

\* C23 for the pointers below 0xFF
C23_IndirectXBelowFF ==
    /\ (FetchIndirectX /\ Pointer # 255) => ~panicked
    /\ (FetchIndirectX /\ ~panicked /\ Pointer # 255) =>
          UsedAddress(UnwrappedAddress)

\* what the two builds make of the pointer 0xFF: the call panics, or the
\* high byte is read from 0x0000
C23_PointerFF ==
    (FetchIndirectX /\ Pointer = 255) =>
        \/ panicked
        \/ UsedAddress(BusRead(prev.ram, 255) + 256 * BusRead(prev.ram, 0))

\* LDA ($FF,X) with X = 0 run by a build without overflow checks: A is the
\* byte at 0xA205, not the byte at 0x0305
C23_PointerFFReached ==
    /\ FetchIndirectX
    /\ ~panicked
    /\ Pointer = 255
    /\ PrevOpcode = 161
    /\ prev.x = 0
    /\ a = 79
    /\ BusRead(prev.ram, UnwrappedAddress) = 77

\* v & 0xFF00
HighPart(v) == v - (v % 256)

\* C24: for AbsoluteX, AbsoluteY and IndirectY the resolver returns
\* (base + index) mod 65536 and reports crossed_page exactly when the high
\* byte of that address differs from the high byte of the 16-bit base: the
\* source's test against (base_high << 8) agrees with the canonical test
\* (base & 0xFF00) != ((base + index) & 0xFF00), the wrap from 0xFFxx to
\* 0x00xx included.
C24_PageCross ==
    call = "get_address" =>
        /\ res.addr = (res.base + res.index) % U16
        /\ res.cross =
              (HighPart(res.base) # HighPart((res.base + res.index) % U16))
        /\ res.cross = ((res.base % 256) + res.index > 255)

\* IndirectY with the base 0xFFFF read through the pointer 0xFF, and Y = 1:
\* the address wraps to 0x0000
C24_Witness ==
    /\ call = "get_address"
    /\ res.mode = "IndirectY"
    /\ BusRead(ram, 0) = 255
    /\ res.base = 65535
    /\ res.index = 1
    /\ res.addr = 0
    /\ res.cross

\* the instruction/mode pairs that read through an indexed mode
IndexedRead ==
    \/ /\ PrevOp.name \in {"LDA", "AND", "EOR", "ORA", "ADC", "SBC", "CMP"}
       /\ PrevOp.addressing_mode \in IndexedModes
    \/ PrevOp.name = "LDX" /\ PrevOp.addressing_mode = "AbsoluteY"
    \/ PrevOp.name = "LDY" /\ PrevOp.addressing_mode = "AbsoluteX"

\* the 16-bit base of the indexed mode of the instruction fetched: its two
\* operand bytes, or the two bytes its zero-page operand points to
IndexedBase ==
    IF PrevOp.addressing_mode = "IndirectY"
    THEN BusRead(prev.ram, BusRead(prev.ram, OperandAddress))
           + 256 * BusRead(prev.ram, BusRead(prev.ram, OperandAddress) + 1)
    ELSE BusRead(prev.ram, OperandAddress)
           + 256 * BusRead(prev.ram, (OperandAddress + 1) % U16)

IndexRegister ==
    IF PrevOp.addressing_mode = "AbsoluteX" THEN prev.x ELSE prev.y

\* base + index is on another page than base
IndexedCross ==
    HighPart(IndexedBase) # HighPart((IndexedBase + IndexRegister) % U16)

\* C25: page-cross penalty.  One cycle beyond the base cycles is billed
\* exactly when the indexed address crosses a page and the instruction is a
\* read in an indexed mode (LDA, AND, EOR, ORA, ADC, SBC, CMP in AbsoluteX,
\* AbsoluteY or IndirectY; LDX in AbsoluteY; LDY in AbsoluteX); the stores
\* STA, STX, STY, the read-modify-write instructions INC, DEC, ASL, LSR, ROL,
\* ROR and every other instruction but the branches are billed the base
\* cycles.
C25_PagePenalty ==
    /\ (Fetched /\ IndexedRead) =>
          instr.billed = PrevOp.cycles + AsInt(IndexedCross)
    /\ (Fetched /\ PrevOp.name \in {"STA", "STX", "STY", "INC", "DEC", "ASL",
                                     "LSR", "ROL", "ROR"}) =>
          instr.billed = PrevOp.cycles
    /\ (Fetched /\ ~IndexedRead /\ ~BranchRan) => instr.billed = PrevOp.cycles
    /\ Fetched => cycles = instr.billed - 1

\* LDA ($10),Y with Y = 0xFF and 0x02C0 at 0x0010: the address 0x03BF is on
\* another page and the instruction is billed 5 + 1
C25_Witness ==
    /\ Fetched
    /\ PrevOpcode = 177
    /\ prev.y = 255
    /\ IndexedBase = 704
    /\ IndexedCross
    /\ instr.billed = 6

\* STA absolute,X with X = 0xFF, across a page, billed its 5 base cycles
C25_StoreReached ==
    /\ Fetched
    /\ PrevOpcode = 157
    /\ prev.x = 255
    /\ IndexedCross
    /\ instr.billed = 5

\* LDA $0300,X with X = 0xFF, within the page, billed its 4 base cycles
C25_NoCrossReached ==
    /\ Fetched
    /\ PrevOpcode = 189
    /\ prev.x = 255
    /\ ~IndexedCross
    /\ instr.billed = 4

\* the operand byte M and the carry-in C (as 0 or 1) of the ADC or SBC called
Operand == BusRead(prev.ram, prev.program_counter)

CarryIn == AsInt(prev.status.carry)

\* the flags ADC and SBC do not write, and everything else but A
ArithFrame ==
    /\ status.interrupt = prev.status.interrupt
    /\ status.decimal = prev.status.decimal
    /\ status.break_command = prev.status.break_command
    /\ status.unused = prev.status.unused
    /\ x = prev.x
    /\ y = prev.y
    /\ stack_pointer = prev.stack_pointer
    /\ program_counter = prev.program_counter
    /\ ram = prev.ram
    /\ ~panicked

\* C26: SBC result.  For all A, M and carry-in C, SBC leaves
\* (A - M - (1 - C)) mod 256 in the accumulator, with Z and N of that value,
\* whatever the Decimal flag.
C26_SbcResult ==
    call = "SBC" =>
        /\ a = (prev.a - Operand - (1 - CarryIn)) % U8
        /\ FlagsOf(a)
        /\ ArithFrame

\* 0x00 - 0x01 with the carry clear: a borrow in and a borrow out
C26_Witness ==
    /\ call = "SBC"
    /\ prev.a = 0
    /\ Operand = 1
    /\ ~prev.status.carry
    /\ prev.status.decimal
    /\ a = 254

\* no borrow: A >= M + (1 - C) as unsigned integers
NoBorrow == prev.a >= Operand + (1 - CarryIn)

\* C27: SBC carry.  For all A, M and carry-in C, SBC leaves the Carry flag
\* set exactly when no borrow occurred, that is when A >= M + (1 - C) as
\* unsigned integers, M = 0 included.
C27_SbcCarry == call = "SBC" => status.carry = NoBorrow

\* C27 for the operands other than 0
C27_SbcCarryNonZero ==
    (call = "SBC" /\ Operand # 0) => status.carry = NoBorrow

\* what SBC makes of the operand 0: the negated operand is 0, the 16-bit
\* sum is A, or 0xFFFF when A = 0 and the carry is clear, and Carry is the
\* opposite of what the subtraction gives
C27_ZeroOperand ==
    (call = "SBC" /\ Operand = 0) =>
        /\ status.carry = (prev.a = 0 /\ CarryIn = 0)
        /\ status.carry = ~NoBorrow

\* 0x05 - 0x00 with the carry set: no borrow, and Carry is left clear
C27_ZeroOperandReached ==
    /\ call = "SBC"
    /\ Operand = 0
    /\ prev.a = 5
    /\ prev.status.carry
    /\ a = 5
    /\ ~status.carry

\* bit 7 of the byte v
Sign(v) == Bit(v, 7)

\* C28: ADC.  For all A, M and carry-in C, with sum = A + M + C, ADC leaves
\* sum mod 256 in the accumulator, Carry = (sum > 255), Overflow set exactly
\* when A and M have the same sign bit and the result another one, and Z
\* and N of the result, whatever the Decimal flag; A = 0x50, C = 0,
\* ADC #$50 gives A = 0xA0, C = 0, V = 1, Z = 0, N = 1.
C28_Adc ==
    /\ call = "ADC" =>
          /\ a = (prev.a + Operand + CarryIn) % U8
          /\ status.carry = (prev.a + Operand + CarryIn > 255)
          /\ status.overflow =
                (Sign(prev.a) = Sign(Operand) /\ Sign(a) # Sign(prev.a))
          /\ FlagsOf(a)
          /\ ArithFrame
    /\ (call = "ADC" /\ prev.a = 80 /\ Operand = 80 /\ ~prev.status.carry) =>
          /\ a = 160
          /\ ~status.carry
          /\ status.overflow
          /\ ~status.zero
          /\ status.negative

\* 0x50 + 0x50 with the carry clear and the Decimal flag set
C28_Witness ==
    /\ call = "ADC"
    /\ prev.a = 80
    /\ Operand = 80
    /\ ~prev.status.carry
    /\ prev.status.decimal
    /\ a = 160
    /\ status.overflow
    /\ status.negative

\* the clock() call that executes a PLP put at the program counter of the
\* current state, once the cycles owed are spent
PlpNow(checks) ==
    clock([CPU(checks) EXCEPT
              !.ram = BusWrite(ram, program_counter, 40),
              !.cycles = 0])

\* a PLP that finds SP and the pushed byte as the PHP left them puts the
\* flags and SP back to what they were before the PHP
PlpRestores ==
    \A checks \in BOOLEAN :
        (/\ checks => program_counter < 65535
         /\ program_counter # 256 + prev.stack_pointer) =>
            /\ ~PlpNow(checks).panicked
            /\ PlpNow(checks).status = prev.status
            /\ PlpNow(checks).stack_pointer = prev.stack_pointer

\* the PLP of the program SEC, SED, PHP, PLP at 0x0000
PhpPlpProgram ==
    /\ Ran("PLP")
    /\ prev.program_counter = 3
    /\ BusRead(prev.ram, 0) = 56
    /\ BusRead(prev.ram, 1) = 248
    /\ BusRead(prev.ram, 2) = 8

\* C29: PHP writes to the stack the status byte with bits 4 (Break) and 5
\* (Unused) set and leaves the flags of the register as they were; PLP loads
\* the popped byte and then clears Break and sets Unused; so, in every
\* reachable state, a PHP followed at once by a PLP leaves the flags and SP
\* as they were before the PHP.
C29_PhpPlp ==
    /\ Ran("PHP") =>
          /\ StackByte(ram, 0) = Or8(to_byte(prev.status), 48)
          /\ Changed \subseteq {256 + prev.stack_pointer}
          /\ status = prev.status
          /\ PlpRestores
    /\ Ran("PLP") =>
          status = [from_byte(StackByte(prev.ram, 1))
                      EXCEPT !.break_command = FALSE, !.unused = TRUE]
    /\ PhpPlpProgram =>
          /\ status = [from_byte(45) EXCEPT !.break_command = FALSE]
          /\ StackByte(prev.ram, 1) = 61
          /\ stack_pointer = 253

\* a PHP with Negative and Interrupt set: the byte pushed is 0xB4
C29_Witness ==
    /\ Ran("PHP")
    /\ prev.status.negative
    /\ to_byte(status) = 164
    /\ StackByte(ram, 0) = 180
    /\ PlpNow(FALSE).status = prev.status
    /\ PlpNow(FALSE).stack_pointer = prev.stack_pointer

\* the PLP that follows the PHP of SEC, SED, PHP, PLP
C29_ProgramReached ==
    /\ PhpPlpProgram
    /\ status.carry
    /\ status.decimal
    /\ stack_pointer = 253

\* the clock() call that executes an RTI put at the program counter of the
\* current state, once the cycles owed are spent
RtiNow(checks) ==
    clock([CPU(checks) EXCEPT
              !.ram = BusWrite(ram, program_counter, 64),
              !.cycles = 0])

\* the last call was nmi(), or an irq() that was accepted
Interrupted ==
    \/ call = "nmi"
    \/ call = "irq" /\ ~prev.status.interrupt

\* an RTI that finds SP and the three bytes as the interrupt left them
\* returns to the PC and SP of before the interrupt, with the flags of before
\* it but Interrupt set, Break clear and Unused set
RtiReturns ==
    \A checks \in BOOLEAN :
        (/\ checks => program_counter < 65535
         /\ program_counter \notin {256 + prev.stack_pointer,
                                    256 + ((prev.stack_pointer - 1) % U8),
                                    256 + ((prev.stack_pointer - 2) % U8)}) =>
            /\ ~RtiNow(checks).panicked
            /\ RtiNow(checks).program_counter = prev.program_counter
            /\ RtiNow(checks).stack_pointer = prev.stack_pointer
            /\ RtiNow(checks).status =
                  [prev.status EXCEPT !.interrupt = TRUE,
                                      !.break_command = FALSE,
                                      !.unused = TRUE]
            /\ RtiNow(checks).a = prev.a
            /\ RtiNow(checks).x = prev.x
            /\ RtiNow(checks).y = prev.y

\* C30: interrupt/RTI round trip.  After nmi() or an accepted irq(), an RTI
\* executed with SP and the three pushed bytes as the interrupt left them
\* puts PC and SP back to their values at the interrupt call (no + 1 on PC)
\* and leaves the flags of before the interrupt but for Interrupt = 1,
\* Break = 0 and Unused = 1; RTI pops the status byte, then PC low, then PC
\* high.
C30_InterruptRti ==
    /\ Interrupted => RtiReturns
    /\ Ran("RTI") =>
          /\ status = [from_byte(StackByte(prev.ram, 1))
                         EXCEPT !.break_command = FALSE, !.unused = TRUE]
          /\ program_counter =
                StackByte(prev.ram, 2) + 256 * StackByte(prev.ram, 3)
          /\ MovedSP(3)

\* an irq() accepted after LDA #$80, CLI, PHA, SEC at 0x0000, with Negative
\* and Carry set and Interrupt clear
C30_Witness ==
    /\ call = "irq"
    /\ ~prev.status.interrupt
    /\ prev.status.negative
    /\ prev.status.carry
    /\ prev.program_counter = 5
    /\ program_counter = 1808
    /\ RtiNow(TRUE).program_counter = 5
    /\ RtiNow(TRUE).status.interrupt
    /\ RtiNow(TRUE).status.carry

\* the RTI at 0x0700 run after an nmi() that was called with PC = 0x0002
C30_RtiReached ==
    /\ Ran("RTI")
    /\ prev.program_counter = 1792
    /\ program_counter = 2
    /\ stack_pointer = 253
    /\ status.negative

\* the cycles reset(), nmi() and irq() set the counter to, and the address
\* of their vector
EntryCycles == IF entry.name = "irq" THEN 7 ELSE 8

EntryVector ==
    CASE entry.name = "reset" -> 65532
      [] entry.name = "nmi" -> 65530
      [] OTHER -> 65534

\* the last call was the k-th clock() call after a reset(), nmi() or
\* accepted irq(), for a k in ks
TickAfterEntry(ks) ==
    /\ entry.name # "none"
    /\ call = "clock"
    /\ entry.ticks \in ks

\* the CPU and memory are as the interrupt left them
AsEntryLeft ==
    /\ a = entry.a
    /\ x = entry.x
    /\ y = entry.y
    /\ stack_pointer = entry.stack_pointer
    /\ program_counter = entry.program_counter
    /\ status = entry.status
    /\ complete = entry.complete
    /\ ram = entry.ram

\* C31: after reset(), nmi() or an accepted irq(), the next N clock() calls
\* (N = 8, 8 and 7) change nothing but the cycle counter, and call N + 1
\* fetches and executes the opcode at the address loaded from the vector
\* (0xFFFC, 0xFFFA, 0xFFFE), however many cycles the interrupted instruction
\* still owed.
C31_InterruptLatency ==
    /\ (entry.name # "none" /\ entry.ticks = 0) =>
          /\ cycles = EntryCycles
          /\ AsEntryLeft
          /\ program_counter =
                BusRead(ram, EntryVector) + 256 * BusRead(ram, EntryVector + 1)
    /\ TickAfterEntry(1 .. EntryCycles) =>
          /\ cycles = EntryCycles - entry.ticks
          /\ AsEntryLeft
          /\ ~panicked
    /\ TickAfterEntry({EntryCycles + 1}) =>
          /\ FetchTick
          /\ prev.program_counter = entry.program_counter
          /\ PrevOpcode = BusRead(entry.ram, entry.program_counter)
          /\ PrevOpcode \notin DOMAIN OPCODES => panicked
          /\ ~panicked =>
                /\ instr.valid
                /\ instr.ticks = 1
                /\ instr.billed >= PrevOp.cycles
                /\ cycles = instr.billed - 1

\* the ninth clock() call after an nmi() that was called with one cycle of
\* the LDA at 0x0000 still owed: it runs the RTI at 0x0700
C31_Witness ==
    /\ TickAfterEntry({9})
    /\ entry.name = "nmi"
    /\ entry.owed = 1
    /\ entry.program_counter = 1792
    /\ Ran("RTI")
    /\ program_counter = 2

\* the eighth clock() call after an accepted irq(), and the ninth after a
\* reset() called in the middle of an instruction
C31_IrqReached ==
    /\ TickAfterEntry({8})
    /\ entry.name = "irq"
    /\ Fetched
    /\ prev.program_counter = 1808

C31_ResetReached ==
    /\ TickAfterEntry({9})
    /\ entry.name = "reset"
    /\ entry.owed > 0
    /\ Fetched
    /\ prev.program_counter = 1536

\* C32: after new() and after every clock(), reset(), nmi() and irq() call
\* the Break flag of the register is 0 and its Unused flag is 1; Break = 1
\* appears only in the status bytes that PHP and BRK write to the stack: the
\* bytes that nmi() and irq() write have Break = 0.
C32_BreakUnused ==
    /\ ~status.break_command
    /\ status.unused
    /\ Bit(to_byte(status), 4) = 0
    /\ Bit(to_byte(status), 5) = 1
    /\ Ran("PHP") => Bit(StackByte(ram, 0), 4) = 1
    /\ Ran("BRK") => Bit(StackByte(ram, -2), 4) = 1
    /\ Interrupted => Bit(StackByte(ram, -2), 4) = 0

\* the BRK of the empty bus, fetched at 0x0000 by the first clock() call:
\* the byte pushed is 0x34 and the register holds 0x24
C32_Witness ==
    /\ Ran("BRK")
    /\ FirstTick
    /\ StackByte(ram, -2) = 52
    /\ to_byte(status) = 36
    /\ complete

\* a PLP and an RTI that pop a byte with Break set and Unused clear
C32_PoppedReached ==
    /\ Ran("RTI") \/ Ran("PLP")
    /\ StackByte(prev.ram, 1) = 211
    /\ to_byte(status) = 227

\* the CPU that the decrement at the end of the next clock() call is applied
\* to: the CPU after the fetch when the counter is at 0, the CPU as it is
\* otherwise
BeforeDecrement(checks) ==
    IF cycles = 0 THEN fetch_execute(CPU(checks)) ELSE CPU(checks)

\* C33: the decrement at the end of clock() never underflows.  In every
\* reachable state a clock() call either panics in its fetch or applies the
\* decrement to a counter of 1 or more: every entry of the opcode table has
\* 2 base cycles or more, the penalties only add cycles, and reset, nmi and
\* irq set the counter to 8, 8 and 7.
C33_NoUnderflow ==
    /\ \A o \in DOMAIN OPCODES : OPCODES[o].cycles >= 2
    /\ cycles >= 0
    /\ ~panicked =>
          \A checks \in BOOLEAN :
              \/ BeforeDecrement(checks).panicked
              \/ BeforeDecrement(checks).cycles >= 1
    /\ (call = "clock" /\ ~panicked) =>
          /\ prev.cycles # 0 => cycles = prev.cycles - 1
          /\ prev.cycles = 0 =>
                /\ instr.billed >= PrevOp.cycles
                /\ cycles = instr.billed - 1
                /\ cycles >= 1
    /\ call \in {"reset", "nmi"} => cycles = 8
    /\ (call = "irq" /\ ~prev.status.interrupt) => cycles = 7

\* a NOP, billed the least an instruction is billed: the decrement of the
\* call that fetched it took the counter from 2 to 1, and the next call
\* takes it from 1 to 0
C33_Witness ==
    /\ Ran("NOP")
    /\ instr.billed = 2
    /\ cycles = 1
    /\ BeforeDecrement(TRUE).cycles = 1
    /\ clock(CPU(TRUE)).cycles = 0
    /\ ~clock(CPU(TRUE)).panicked

====
